---- MODULE Spec2Model ----
(***************************************************************************)
(* A model of the systematic-review extractor: the metadata normaliser     *)
(* (src/src/extractors/paper_data.py), the aggregation controller          *)
(* (src/src/review.py) and the two quality scorers                         *)
(* (src/src/exporters/validator.py, src/src/validation/quality_checker.py).*)
(*                                                                         *)
(* Python strings are sequences of one-character strings; Python values    *)
(* are tagged records so that a str, a list, None and an int stay apart.   *)
(***************************************************************************)
EXTENDS Integers, Sequences, FiniteSets, TLC

VARIABLES
    raw,        \* normaliser: the raw record handed to the function under call
    fn,         \* normaliser: the function that was called ("" before the call)
    ret,        \* normaliser: what the call returned or raised
    medline,    \* PubMed reader: the MEDLINE text Entrez.efetch answers with
    pc,         \* controller: position inside search_databases
    args,       \* controller: arguments of the search_databases call under way
    feed,       \* controller: what the current loop still has to process: PMIDs,
                \* each named by its place in EfetchOutcomes, or records,
                \* each named by its place in ReaderPool
    delivered,  \* controller: <<source, record>> of every record a reader returned
    results,    \* controller: self.results
    logged,     \* controller: number of logging.error calls of search_databases
    reader_log, \* controller: the calls made on the sources so far, in order,
                \* and whether they raised
    data,       \* scorer: the record collection handed to the scorer
    validation_results,  \* scorer: DataValidator.validation_results
    op,         \* scorer: the entry points called so far, in order
    report,     \* scorer: what the last call returned or raised
    written     \* scorer: the lines of validation_report.txt (<<>>: no file)

vars == <<raw, fn, ret, medline, pc, args, feed, delivered, results, logged,
          reader_log, data, validation_results, op, report, written>>

(***************************************************************************)
(* Characters and Python's string primitives.                              *)
(***************************************************************************)
Digit == {"0", "1", "2", "3", "4", "5", "6", "7", "8", "9"}

Whitespace == {" ", "\t", "\n"}

UpperCase == <<"A","B","C","D","E","F","G","H","I","J","K","L","M",
               "N","O","P","Q","R","S","T","U","V","W","X","Y","Z">>

LowerCase == <<"a","b","c","d","e","f","g","h","i","j","k","l","m",
               "n","o","p","q","r","s","t","u","v","w","x","y","z">>

Letter == {UpperCase[i] : i \in 1..26} \cup {LowerCase[i] : i \in 1..26}

\* regex \w (ASCII part)
WordChar == Letter \cup Digit \cup {"_"}

\* every character the inputs of this model are written with
Alphabet == WordChar \cup Whitespace \cup
            {".", "/", "-", ":", ";", "(", ")", "=", ",", "[", "]"}

LowerChar(c) ==
    IF \E i \in 1..26 : UpperCase[i] = c
    THEN LowerCase[CHOOSE i \in 1..26 : UpperCase[i] = c]
    ELSE c

\* str.lower()
Lower(s) == [i \in 1..Len(s) |-> LowerChar(s[i])]

\* str.lstrip()
RECURSIVE LStrip(_)
LStrip(s) == IF s # <<>> /\ Head(s) \in Whitespace THEN LStrip(Tail(s)) ELSE s

\* str.rstrip()
RECURSIVE RStrip(_)
RStrip(s) ==
    IF s # <<>> /\ s[Len(s)] \in Whitespace
    THEN RStrip(SubSeq(s, 1, Len(s) - 1))
    ELSE s

\* str.strip()
Strip(s) == RStrip(LStrip(s))

\* str.startswith(prefix)
StartsWith(s, prefix) ==
    Len(s) >= Len(prefix) /\ SubSeq(s, 1, Len(prefix)) = prefix

\* Python's `kw in text` for two strings
Contains(text, kw) ==
    \E i \in 1..(Len(text) - Len(kw) + 1) : SubSeq(text, i, i + Len(kw) - 1) = kw

\* the prefix of s before the first character of `seps` (all of s when none)
RECURSIVE TakeUntil(_, _)
TakeUntil(s, seps) ==
    IF s = <<>> \/ Head(s) \in seps THEN <<>>
    ELSE <<Head(s)>> \o TakeUntil(Tail(s), seps)

\* str.split(sep) for a one-character separator: always at least one piece
RECURSIVE SplitOn(_, _)
SplitOn(s, sep) ==
    LET piece == TakeUntil(s, {sep})
    IN  IF Len(piece) = Len(s) THEN <<piece>>
        ELSE <<piece>> \o SplitOn(SubSeq(s, Len(piece) + 2, Len(s)), sep)

\* str.split(): the whitespace-delimited tokens, none of them empty
RECURSIVE SplitWhitespace(_)
SplitWhitespace(s) ==
    LET t == LStrip(s)
        piece == TakeUntil(t, Whitespace)
    IN  IF t = <<>> THEN <<>>
        ELSE <<piece>> \o SplitWhitespace(SubSeq(t, Len(piece) + 1, Len(t)))

\* ' '.join(list of str)
RECURSIVE JoinSpace(_)
JoinSpace(parts) ==
    IF parts = <<>> THEN <<>>
    ELSE IF Len(parts) = 1 THEN parts[1]
    ELSE parts[1] \o <<" ">> \o JoinSpace(Tail(parts))

DigitValue(c) == CHOOSE n \in 0..9 : ToString(n) = c

\* int(str) for a string of decimal digits
RECURSIVE ToInt(_)
ToInt(s) ==
    IF s = <<>> THEN 0
    ELSE 10 * ToInt(SubSeq(s, 1, Len(s) - 1)) + DigitValue(s[Len(s)])

(***************************************************************************)
(* Python's re: a backtracking matcher.  A pattern is a sequence of nodes; *)
(* a node is a greedy repetition of a character class, an ordered          *)
(* alternation of patterns, or the opening/closing mark of a group.        *)
(***************************************************************************)
Cls(c, lo, hi) == [k |-> "cls", c |-> c, lo |-> lo, hi |-> hi, inf |-> FALSE, a |-> <<>>, g |-> ""]

\* c{lo,}
ClsFrom(c, lo) == [k |-> "cls", c |-> c, lo |-> lo, hi |-> lo, inf |-> TRUE, a |-> <<>>, g |-> ""]

Alt(a) == [k |-> "alt", c |-> {}, lo |-> 0, hi |-> 0, inf |-> FALSE, a |-> a, g |-> ""]

Open(g) == [k |-> "open", c |-> {}, lo |-> 0, hi |-> 0, inf |-> FALSE, a |-> <<>>, g |-> g]

Close(g) == [k |-> "close", c |-> {}, lo |-> 0, hi |-> 0, inf |-> FALSE, a |-> <<>>, g |-> g]

\* a literal string
Lit(s) == [i \in 1..Len(s) |-> Cls({s[i]}, 1, 1)]

\* a literal string under re.IGNORECASE
LitIgnoreCase(s) ==
    [i \in 1..Len(s) |->
        Cls({c \in Letter \cup {s[i]} : LowerChar(c) = LowerChar(s[i])}, 1, 1)]

\* regex `.`: any character but a newline
AnyChar == Alphabet \ {"\n"}

GroupNames == {"1", "Y", "m", "b", "d"}

NoGroups == [g \in GroupNames |-> <<0, 0>>]

NoMatch == [ok |-> FALSE, start |-> 0, end |-> 0, grp |-> NoGroups]

\* how many characters of class c stand at s[i], s[i+1], ..., at most `limit`
RECURSIVE RunLength(_, _, _, _)
RunLength(s, i, c, limit) ==
    IF limit = 0 \/ i > Len(s) \/ s[i] \notin c THEN 0
    ELSE 1 + RunLength(s, i + 1, c, limit - 1)

RECURSIVE Match(_, _, _)
RECURSIVE TryCounts(_, _, _, _, _)
RECURSIVE TryAlts(_, _, _, _)

\* the match the engine prefers for `nodes` at position i of s (end: the
\* position after the last matched character), NoMatch when there is none
Match(nodes, s, i) ==
    IF nodes = <<>>
    THEN [ok |-> TRUE, start |-> i, end |-> i, grp |-> NoGroups]
    ELSE LET h == Head(nodes)
             rest == Tail(nodes)
         IN  CASE h.k = "cls" ->
                    LET limit == IF h.inf THEN Len(s) ELSE h.hi
                    IN  TryCounts(rest, s, i, RunLength(s, i, h.c, limit), h.lo)
               [] h.k = "alt" -> TryAlts(h.a, rest, s, i)
               [] h.k = "open" ->
                    LET r == Match(rest, s, i)
                    IN  IF r.ok THEN [r EXCEPT !.grp[h.g][1] = i, !.start = i] ELSE r
               [] h.k = "close" ->
                    LET r == Match(rest, s, i)
                    IN  IF r.ok THEN [r EXCEPT !.grp[h.g][2] = i, !.start = i] ELSE r

\* greedy: the longest repetition first, then shorter ones down to lo
TryCounts(rest, s, i, n, lo) ==
    IF n < lo THEN NoMatch
    ELSE LET r == Match(rest, s, i + n)
         IN  IF r.ok THEN [r EXCEPT !.start = i] ELSE TryCounts(rest, s, i, n - 1, lo)

\* alternatives in the order written
TryAlts(alts, rest, s, i) ==
    IF alts = <<>> THEN NoMatch
    ELSE LET r == Match(Head(alts) \o rest, s, i)
         IN  IF r.ok THEN [r EXCEPT !.start = i] ELSE TryAlts(Tail(alts), rest, s, i)

\* re.search: the match at the leftmost position that has one
RECURSIVE SearchFrom(_, _, _)
SearchFrom(nodes, s, i) ==
    IF i > Len(s) + 1 THEN NoMatch
    ELSE LET r == Match(nodes, s, i)
         IN  IF r.ok THEN r ELSE SearchFrom(nodes, s, i + 1)

Search(nodes, s) == SearchFrom(nodes, s, 1)

\* match.group(0)
Group0(s, m) == SubSeq(s, m.start, m.end - 1)

\* match.group(name)
Group(s, m, g) == SubSeq(s, m.grp[g][1], m.grp[g][2] - 1)

(***************************************************************************)
(* Python values as they occur in a raw record: a str, a list (of str or   *)
(* None elements), None, an int (kept as its decimal digits); "absent" is  *)
(* a key the dict does not have.                                           *)
(***************************************************************************)
Keys == {"TI", "title", "AU", "authors", "FAU", "DOI", "doi",
         "DP", "PDAT", "publication_date", "year",
         "AB", "abstract", "methods", "PT", "publication_type",
         "LID", "OUR", "full_text_url"}

Absent == [t |-> "absent", s |-> <<>>, l |-> <<>>]

None == [t |-> "none", s |-> <<>>, l |-> <<>>]

Str(s) == [t |-> "str", s |-> s, l |-> <<>>]

IntVal(digits) == [t |-> "int", s |-> digits, l |-> <<>>]

\* a list element: a str, or None
Elem(s) == [t |-> "str", s |-> s]

NoneElem == [t |-> "none", s |-> <<>>]

List(l) == [t |-> "list", s |-> <<>>, l |-> l]

\* a list of str
StrList(ss) == List([i \in 1..Len(ss) |-> Elem(ss[i])])

EmptyRecord == [k \in Keys |-> Absent]

\* dict.get(key, default)
Get(d, key, default) == IF d[key].t = "absent" THEN default ELSE d[key]

\* Python truthiness
Truthy(v) ==
    CASE v.t = "str" -> v.s # <<>>
      [] v.t = "list" -> v.l # <<>>
      [] v.t = "int" -> ToInt(v.s) # 0
      [] OTHER -> FALSE

\* what a function call does: return a value, or raise
Return(v) == [exc |-> "", val |-> v]

Raise(e) == [exc |-> e, val |-> None]

\* Optional[str] and Optional[int] results
NoStr == [t |-> "none", s |-> <<>>]

SomeStr(s) == [t |-> "str", s |-> s]

NoInt == [t |-> "none", n |-> 0]

SomeInt(n) == [t |-> "int", n |-> n]

(***************************************************************************)
(* PaperDataExtractor (src/src/extractors/paper_data.py).                  *)
(***************************************************************************)
\* DOI_PATTERN = r'10.\d{4,9}/[-._;()/:\w]+'   (the dot is unescaped)
DoiSuffixChar == {"-", ".", "_", ";", "(", ")", "/", ":"} \cup WordChar

DOI_PATTERN ==
    Lit(<<"1", "0">>) \o <<Cls(AnyChar, 1, 1), Cls(Digit, 4, 9)>> \o Lit(<<"/">>)
        \o <<ClsFrom(DoiSuffixChar, 1)>>

\* the categories in the order the dict literal lists them
STUDY_TYPES ==
    << [type |-> <<"R", "C", "T">>,
        keywords |-> <<<<"r", "a", "n", "d", "o", "m", "i", "z", "e", "d">>, <<"r", "a", "n", "d", "o", "m", "i", "s", "e", "d">>, <<"r", "c", "t">>>>],
       [type |-> <<"C", "o", "h", "o", "r", "t">>,
        keywords |-> <<<<"c", "o", "h", "o", "r", "t">>, <<"l", "o", "n", "g", "i", "t", "u", "d", "i", "n", "a", "l">>>>],
       [type |-> <<"C", "a", "s", "e", "-", "C", "o", "n", "t", "r", "o", "l">>,
        keywords |-> <<<<"c", "a", "s", "e", "-", "c", "o", "n", "t", "r", "o", "l">>, <<"c", "a", "s", "e", " ", "c", "o", "n", "t", "r", "o", "l">>>>],
       [type |-> <<"M", "e", "t", "a", "-", "A", "n", "a", "l", "y", "s", "i", "s">>,
        keywords |-> <<<<"m", "e", "t", "a", "-", "a", "n", "a", "l", "y", "s", "i", "s">>, <<"m", "e", "t", "a", " ", "a", "n", "a", "l", "y", "s", "i", "s">>>>],
       [type |-> <<"S", "y", "s", "t", "e", "m", "a", "t", "i", "c", " ", "R", "e", "v", "i", "e", "w">>,
        keywords |-> <<<<"s", "y", "s", "t", "e", "m", "a", "t", "i", "c", " ", "r", "e", "v", "i", "e", "w">>>>],
       [type |-> <<"O", "b", "s", "e", "r", "v", "a", "t", "i", "o", "n", "a", "l">>,
        keywords |-> <<<<"o", "b", "s", "e", "r", "v", "a", "t", "i", "o", "n", "a", "l">>, <<"c", "r", "o", "s", "s", "-", "s", "e", "c", "t", "i", "o", "n", "a", "l">>>>] >>

_validate_title(title) ==
    IF ~Truthy(title) THEN Raise("ValueError")
    ELSE IF title.t # "str" THEN Raise("AttributeError")
    ELSE IF Len(Strip(title.s)) < 3 THEN Raise("ValueError")
    ELSE Return(Strip(title.s))

_extract_authors(d) ==
    LET raw_authors == Get(d, "AU", Get(d, "authors", Get(d, "FAU", List(<<>>))))
        pieces == SplitOn(raw_authors.s, ",")
        elems == IF raw_authors.t = "str"
                 THEN [i \in 1..Len(pieces) |-> Elem(Strip(pieces[i]))]
                 ELSE raw_authors.l
        stripped == [i \in 1..Len(elems) |-> Strip(elems[i].s)]
    IN  IF raw_authors.t \in {"none", "int"} THEN Raise("TypeError")
        ELSE IF \E i \in 1..Len(elems) : elems[i].t # "str"
        THEN Raise("AttributeError")
        ELSE Return(SelectSeq(stripped, LAMBDA a : a # <<>> /\ Len(a) > 1))

\* a variant that returns the whole field once a DOI is found in it
_extract_doi_ReturnsWholeField(d) ==
    LET doi == Get(d, "DOI", Get(d, "doi", Str(<<>>)))
        doi_match == Search(DOI_PATTERN, doi.s)
    IN  IF ~Truthy(doi) THEN Return(NoStr)
        ELSE IF doi.t # "str" THEN Raise("TypeError")
        ELSE IF doi_match.ok THEN Return(SomeStr(doi.s))
        ELSE Return(NoStr)

_extract_doi(d) ==
    LET doi == Get(d, "DOI", Get(d, "doi", Str(<<>>)))
        doi_match == Search(DOI_PATTERN, doi.s)
    IN  IF ~Truthy(doi) THEN Return(NoStr)
        ELSE IF doi.t # "str" THEN Raise("TypeError")
        ELSE IF doi_match.ok THEN Return(SomeStr(Group0(doi.s, doi_match)))
        ELSE Return(NoStr)

\* _strptime's regexes for the directives the formats use
DirectiveY == <<Open("Y"), Cls(Digit, 4, 4), Close("Y")>>

DirectiveM ==
    <<Open("m"),
      Alt(<< <<Cls({"1"}, 1, 1), Cls({"0", "1", "2"}, 1, 1)>>,
             <<Cls({"0"}, 1, 1), Cls(Digit \ {"0"}, 1, 1)>>,
             <<Cls(Digit \ {"0"}, 1, 1)>> >>),
      Close("m")>>

DirectiveD ==
    <<Open("d"),
      Alt(<< <<Cls({"3"}, 1, 1), Cls({"0", "1"}, 1, 1)>>,
             <<Cls({"1", "2"}, 1, 1), Cls(Digit, 1, 1)>>,
             <<Cls({"0"}, 1, 1), Cls(Digit \ {"0"}, 1, 1)>>,
             <<Cls(Digit \ {"0"}, 1, 1)>>,
             <<Cls({" "}, 1, 1), Cls(Digit \ {"0"}, 1, 1)>> >>),
      Close("d")>>

MonthNames == <<<<"j", "a", "n">>, <<"f", "e", "b">>, <<"m", "a", "r">>, <<"a", "p", "r">>, <<"m", "a", "y">>, <<"j", "u", "n">>,
                <<"j", "u", "l">>, <<"a", "u", "g">>, <<"s", "e", "p">>, <<"o", "c", "t">>, <<"n", "o", "v">>, <<"d", "e", "c">>>>

DirectiveB ==
    <<Open("b"),
      Alt([i \in 1..12 |-> LitIgnoreCase(MonthNames[i])]),
      Close("b")>>

\* whitespace in a format matches \s+
FormatSpace == <<ClsFrom(Whitespace, 1)>>

\* ['%Y', '%Y/%m/%d', '%Y-%m-%d', '%Y %b %d']
\* a variant without the dash-separated format
DateFormats_WithoutDash ==
    << [fmt |-> "%Y", nodes |-> DirectiveY, hasM |-> FALSE, hasB |-> FALSE, hasD |-> FALSE],
       [fmt |-> "%Y/%m/%d",
        nodes |-> DirectiveY \o Lit(<<"/">>) \o DirectiveM \o Lit(<<"/">>) \o DirectiveD,
        hasM |-> TRUE, hasB |-> FALSE, hasD |-> TRUE],
       [fmt |-> "%Y %b %d",
        nodes |-> DirectiveY \o FormatSpace \o DirectiveB \o FormatSpace \o DirectiveD,
        hasM |-> FALSE, hasB |-> TRUE, hasD |-> TRUE] >>

DateFormats ==
    << [fmt |-> "%Y", nodes |-> DirectiveY, hasM |-> FALSE, hasB |-> FALSE, hasD |-> FALSE],
       [fmt |-> "%Y/%m/%d",
        nodes |-> DirectiveY \o Lit(<<"/">>) \o DirectiveM \o Lit(<<"/">>) \o DirectiveD,
        hasM |-> TRUE, hasB |-> FALSE, hasD |-> TRUE],
       [fmt |-> "%Y-%m-%d",
        nodes |-> DirectiveY \o Lit(<<"-">>) \o DirectiveM \o Lit(<<"-">>) \o DirectiveD,
        hasM |-> TRUE, hasB |-> FALSE, hasD |-> TRUE],
       [fmt |-> "%Y %b %d",
        nodes |-> DirectiveY \o FormatSpace \o DirectiveB \o FormatSpace \o DirectiveD,
        hasM |-> FALSE, hasB |-> TRUE, hasD |-> TRUE] >>

IsLeap(y) == (y % 4 = 0 /\ y % 100 # 0) \/ y % 400 = 0

DaysInMonth(y, m) ==
    IF m = 2 THEN (IF IsLeap(y) THEN 29 ELSE 28)
    ELSE IF m \in {4, 6, 9, 11} THEN 30 ELSE 31

\* datetime.strptime(s, format).year: ValueError when s does not match the
\* format, when text is left over, or when the date does not exist
strptime_year(s, format) ==
    LET m == Match(format.nodes, s, 1)
        year == ToInt(Group(s, m, "Y"))
        bname == Lower(Group(s, m, "b"))
        month == IF format.hasM THEN ToInt(Group(s, m, "m"))
                 ELSE IF format.hasB
                 THEN CHOOSE i \in 1..12 : MonthNames[i] = bname
                 ELSE 1
        day == IF format.hasD THEN ToInt(Strip(Group(s, m, "d"))) ELSE 1
    IN  IF ~m.ok THEN Raise("ValueError")
        ELSE IF m.end # Len(s) + 1 THEN Raise("ValueError")
        ELSE IF year < 1 \/ day > DaysInMonth(year, month) THEN Raise("ValueError")
        ELSE Return(SomeInt(year))

DateFields == <<"DP", "PDAT", "publication_date", "year">>

\* the inner loop over the formats, from format f on
RECURSIVE TryFormats(_, _)
TryFormats(token, f) ==
    IF f > Len(DateFormats) THEN Raise("ValueError")
    ELSE LET r == strptime_year(token, DateFormats[f])
         IN  IF r.exc = "" THEN r ELSE TryFormats(token, f + 1)

\* the outer loop over the candidate keys, from key k on
RECURSIVE TryDateFields(_, _)
TryDateFields(d, k) ==
    IF k > Len(DateFields) THEN Return(NoInt)
    ELSE LET date_str == Get(d, DateFields[k], None)
             tokens == SplitWhitespace(date_str.s)
             r == TryFormats(tokens[1], 1)
         IN  IF ~Truthy(date_str) THEN TryDateFields(d, k + 1)
             ELSE IF date_str.t # "str" THEN Raise("AttributeError")
             ELSE IF tokens = <<>> THEN Raise("IndexError")
             ELSE IF r.exc = "" THEN r
             ELSE TryDateFields(d, k + 1)

_extract_year(d) ==
    LET r == TryDateFields(d, 1)
    IN  IF r.exc # "" THEN Return(NoInt) ELSE r

\* the texts of the given keys (default ''), joined by ' ' and case-folded;
\* str.join raises TypeError on an item that is not a str
JoinedText(d, keys) ==
    LET vals == [i \in 1..Len(keys) |-> Get(d, keys[i], Str(<<>>))]
    IN  IF \E i \in 1..Len(vals) : vals[i].t # "str" THEN Raise("TypeError")
        ELSE Return(Str(Lower(JoinSpace([i \in 1..Len(vals) |-> vals[i].s]))))

\* \s*
Spaces == <<ClsFrom(Whitespace, 0)>>

\* (\d+)
Number == <<Open("1"), ClsFrom(Digit, 1), Close("1")>>

\* r'n\s*=\s*(\d+)', r'sample size (?:of|was|=)\s*(\d+)',
\* r'enrolled\s*(\d+)\s*participants', r'included\s*(\d+)\s*patients'
SamplePatterns ==
    << Lit(<<"n">>) \o Spaces \o Lit(<<"=">>) \o Spaces \o Number,
       Lit(<<"s", "a", "m", "p", "l", "e", " ", "s", "i", "z", "e", " ">>) \o <<Alt(<<Lit(<<"o", "f">>), Lit(<<"w", "a", "s">>), Lit(<<"=">>)>>)>>
           \o Spaces \o Number,
       Lit(<<"e", "n", "r", "o", "l", "l", "e", "d">>) \o Spaces \o Number \o Spaces \o Lit(<<"p", "a", "r", "t", "i", "c", "i", "p", "a", "n", "t", "s">>),
       Lit(<<"i", "n", "c", "l", "u", "d", "e", "d">>) \o Spaces \o Number \o Spaces \o Lit(<<"p", "a", "t", "i", "e", "n", "t", "s">>) >>

\* the loop over the patterns, from pattern p on
RECURSIVE TryPatterns(_, _, _)
TryPatterns(patterns, text, p) ==
    IF p > Len(patterns) THEN NoInt
    ELSE LET match == Search(patterns[p], text)
         IN  IF match.ok THEN SomeInt(ToInt(Group(text, match, "1")))
             ELSE TryPatterns(patterns, text, p + 1)

\* a variant that tries the patterns in the reverse order
_extract_sample_size_Reversed(d) ==
    LET text == JoinedText(d, <<"AB", "abstract", "methods">>)
        reversed == [p \in 1..Len(SamplePatterns) |->
                        SamplePatterns[Len(SamplePatterns) + 1 - p]]
    IN  IF text.exc # "" THEN Return(NoInt)
        ELSE Return(TryPatterns(reversed, text.val.s, 1))

_extract_sample_size(d) ==
    LET text == JoinedText(d, <<"AB", "abstract", "methods">>)
    IN  IF text.exc # "" THEN Return(NoInt)
        ELSE Return(TryPatterns(SamplePatterns, text.val.s, 1))

\* a variant in which the last category with a keyword in the text wins
TryStudyTypes_LastCategoryWins(text, c) ==
    LET found == {j \in c..Len(STUDY_TYPES) :
                     \E k \in 1..Len(STUDY_TYPES[j].keywords) :
                         Contains(text, STUDY_TYPES[j].keywords[k])}
    IN  IF found = {} THEN NoStr
        ELSE SomeStr(STUDY_TYPES[CHOOSE j \in found : \A i \in found : i <= j].type)

\* the loop over STUDY_TYPES.items(), from category c on
RECURSIVE TryStudyTypes(_, _)
TryStudyTypes(text, c) ==
    IF c > Len(STUDY_TYPES) THEN NoStr
    ELSE IF \E k \in 1..Len(STUDY_TYPES[c].keywords) :
                Contains(text, STUDY_TYPES[c].keywords[k])
    THEN SomeStr(STUDY_TYPES[c].type)
    ELSE TryStudyTypes(text, c + 1)

_detect_study_type(d) ==
    LET text == JoinedText(d, <<"TI", "AB", "PT", "publication_type">>)
    IN  IF text.exc # "" THEN Return(NoStr)
        ELSE Return(TryStudyTypes(text.val.s, 1))

LinkFields == <<"LID", "OUR", "full_text_url">>

IsHttpUrl(url) == StartsWith(url, <<"h", "t", "t", "p", ":", "/", "/">>) \/ StartsWith(url, <<"h", "t", "t", "p", "s", ":", "/", "/">>)

\* the inner loop over the urls of one field, from element i on:
\* the links so far, and whether an element raised
RECURSIVE ScanUrls(_, _, _)
ScanUrls(urls, i, links) ==
    IF i > Len(urls) THEN [links |-> links, exc |-> ""]
    ELSE IF urls[i].t # "str" THEN [links |-> links, exc |-> "AttributeError"]
    ELSE ScanUrls(urls, i + 1,
                  IF IsHttpUrl(urls[i].s) THEN Append(links, urls[i].s) ELSE links)

\* the outer loop over the URL-bearing keys, from key k on
RECURSIVE ScanLinkFields(_, _, _)
ScanLinkFields(d, k, links) ==
    IF k > Len(LinkFields) THEN [links |-> links, exc |-> ""]
    ELSE LET got == Get(d, LinkFields[k], List(<<>>))
             urls == IF got.t = "str" THEN <<Elem(got.s)>> ELSE got.l
             r == ScanUrls(urls, 1, links)
         IN  IF got.t \in {"none", "int"} THEN [links |-> links, exc |-> "TypeError"]
             ELSE IF r.exc # "" THEN r
             ELSE ScanLinkFields(d, k + 1, r.links)

\* list(set(links)): the distinct links; the order Python gives them is that
\* of the set's hash table, here the order of first occurrence
RECURSIVE ListOfSet(_)
ListOfSet(links) ==
    IF links = <<>> THEN <<>>
    ELSE LET init == ListOfSet(SubSeq(links, 1, Len(links) - 1))
             last == links[Len(links)]
         IN  IF \E i \in 1..Len(init) : init[i] = last THEN init
             ELSE Append(init, last)

DoiLink(doi) == <<"h", "t", "t", "p", "s", ":", "/", "/", "d", "o", "i", ".", "o", "r", "g", "/">> \o doi

_extract_full_text_links(d) ==
    LET scan == ScanLinkFields(d, 1, <<>>)
        doi == _extract_doi(d)
        links == IF scan.exc = "" /\ doi.exc = "" /\ doi.val.t = "str"
                 THEN Append(scan.links, DoiLink(doi.val.s))
                 ELSE scan.links
    IN  Return(ListOfSet(links))

\* PaperMetadata
NoMetadata ==
    [title |-> <<>>, authors |-> <<>>, doi |-> NoStr, year |-> NoInt,
     sample_size |-> NoInt, study_type |-> NoStr, full_text_links |-> <<>>]

extract_metadata(paper_data) ==
    LET title == _validate_title(Get(paper_data, "TI",
                                    Get(paper_data, "title", Str(<<>>))))
        authors == _extract_authors(paper_data)
        doi == _extract_doi(paper_data)
        year == _extract_year(paper_data)
        sample_size == _extract_sample_size(paper_data)
        study_type == _detect_study_type(paper_data)
        full_text_links == _extract_full_text_links(paper_data)
    IN  IF title.exc # "" \/ authors.exc # "" \/ doi.exc # "" \/ year.exc # ""
           \/ sample_size.exc # "" \/ study_type.exc # "" \/ full_text_links.exc # ""
        THEN [exc |-> "ValueError", val |-> NoMetadata]
        ELSE Return([title |-> title.val, authors |-> authors.val, doi |-> doi.val,
                     year |-> year.val, sample_size |-> sample_size.val,
                     study_type |-> study_type.val,
                     full_text_links |-> full_text_links.val])

(***************************************************************************)
(* Bounded inputs of the normaliser.  Strings are concatenations of a few  *)
(* tokens, so that matches occur embedded, repeated, truncated and broken; *)
(* values come in every shape a raw record can carry.                      *)
(***************************************************************************)
\* every concatenation of at most n of the tokens
RECURSIVE Concats(_, _)
Concats(tokens, n) ==
    IF n = 0 THEN {<<>>}
    ELSE LET shorter == Concats(tokens, n - 1)
         IN  shorter \cup {p \o tokens[i] : p \in shorter, i \in 1..Len(tokens)}

MaxDoiTokens == 4

MaxDateTokens == 2

MaxSampleTokens == 3

MaxTypeTokens == 2

\* a record that extract_metadata accepts and that carries nothing else
Titled == [EmptyRecord EXCEPT !["TI"] = Str(<<"A", " ", "S", "t", "u", "d", "y">>)]

DoiTokens == <<<<"1", "0", ".", "1", "2", "3", "4">>, <<"5", "6", "7", "8", "9", "0">>, <<"/">>, <<"a", ".", "b">>, <<" ">>, <<"1", "0", "x", "1", "2">>>>

DoiStrings == Concats(DoiTokens, MaxDoiTokens)

\* a DOI-bearing field in every shape
DoiShapes ==
    {Absent, None, Str(<<>>), Str(<<"1", "0", ".", "1", "2", "3", "4", "/", "a", "b", "c">>), Str(<<"n", "o", "d", "o", "i">>),
     StrList(<<<<"1", "0", ".", "1", "2", "3", "4", "/", "a", "b", "c">>>>), List(<<>>), IntVal(<<"1", "2", "3">>), IntVal(<<"0">>)}

DoiInputs ==
    {[Titled EXCEPT !["DOI"] = Str(s)] : s \in DoiStrings}
    \cup {[Titled EXCEPT !["DOI"] = a, !["doi"] = b] : a \in DoiShapes, b \in DoiShapes}

DateTokens == <<<<"2", "0", "2", "3">>, <<"/", "0", "1", "/", "1", "5">>, <<"-", "0", "1", "-", "1", "5">>, <<" ", "J", "a", "n", " ", "1", "5">>, <<"i", "n", "v", "a", "l", "i", "d">>, <<" ">>,
                <<"/", "1", "3", "/", "0", "1">>, <<"-", "0", "2", "-", "2", "9">>, <<"1", "7", "5", "0">>, <<"2", "0", "2", "4">>>>

DateStrings == Concats(DateTokens, MaxDateTokens)

DateShapes ==
    {Absent, None, Str(<<>>), Str(<<" ", " ">>), Str(<<"b", "a", "d">>), Str(<<"2", "0", "2", "1">>),
     StrList(<<<<"2", "0", "2", "0">>>>), IntVal(<<"2", "0", "2", "0">>)}

DateInputs ==
    {[Titled EXCEPT !["DP"] = Str(s)] : s \in DateStrings}
    \cup {[Titled EXCEPT !["DP"] = a, !["PDAT"] = b, !["publication_date"] = c,
                         !["year"] = e] :
            a \in DateShapes, b \in {Absent, Str(<<"1", "9", "9", "9", "/", "1", "/", "1">>)},
            c \in {Absent, Str(<<"x">>)}, e \in {Absent, Str(<<"2", "0", "2", "0", "-", "1", "2", "-", "3", "1">>), IntVal(<<"2", "0", "2", "0">>)}}

SampleTokens == <<<<"n", "=", "7", " ">>, <<"s", "a", "m", "p", "l", "e", " ", "s", "i", "z", "e", " ", "o", "f", " ", "3", "0", "0", " ">>, <<"e", "n", "r", "o", "l", "l", "e", "d", " ", "2", "5", "0", " ", "p", "a", "r", "t", "i", "c", "i", "p", "a", "n", "t", "s", " ">>,
                  <<"i", "n", "c", "l", "u", "d", "e", "d", " ", "3", "0", " ", "p", "a", "t", "i", "e", "n", "t", "s", " ">>, <<"n", " ">>, <<"=", " ">>, <<"5">>, <<"N">>,
                  <<"S", "a", "m", "p", "l", "e", " ", "S", "i", "z", "e", " ", "W", "A", "S">>>>

\* the texts of test_extract_sample_size
SampleExamples == {<<"T", "h", "i", "s", " ", "s", "t", "u", "d", "y", " ", "i", "n", "c", "l", "u", "d", "e", "d", " ", "n", "=", "5", "0", "0", " ", "p", "a", "r", "t", "i", "c", "i", "p", "a", "n", "t", "s">>, <<"s", "a", "m", "p", "l", "e", " ", "s", "i", "z", "e", " ", "o", "f", " ", "3", "0", "0">>,
                   <<"e", "n", "r", "o", "l", "l", "e", "d", " ", "2", "5", "0", " ", "p", "a", "r", "t", "i", "c", "i", "p", "a", "n", "t", "s">>}

\* texts that report no participant
SampleZeros == {<<"n", " ", "=", " ", "0">>, <<"W", "e", " ", "e", "n", "r", "o", "l", "l", "e", "d", " ", "0", " ", "p", "a", "r", "t", "i", "c", "i", "p", "a", "n", "t", "s">>, <<"s", "a", "m", "p", "l", "e", " ", "s", "i", "z", "e", " ", "w", "a", "s", " ", "0", "0">>}

SampleStrings == Concats(SampleTokens, MaxSampleTokens) \cup SampleExamples \cup SampleZeros

SampleInputs ==
    {[Titled EXCEPT !["AB"] = Str(s)] : s \in SampleStrings}
    \cup {[Titled EXCEPT !["AB"] = a, !["abstract"] = b, !["methods"] = c] :
            a \in {Absent, None, Str(<<"x", " ", "n">>), Str(<<"s", "a", "m", "p", "l", "e", " ", "s", "i", "z", "e">>), Str(<<"e", "n", "r", "o", "l", "l", "e", "d", " ", "3">>)},
            b \in {Absent, StrList(<<<<"n", "=", "5">>>>), Str(<<"=", " ", "5">>), Str(<<"o", "f", " ", "4">>),
                   Str(<<"p", "a", "r", "t", "i", "c", "i", "p", "a", "n", "t", "s">>)},
            c \in {Absent, Str(<<"N", "=", "9">>), Str(<<"=", "6">>)}}

TypeTokens == <<<<"A", " ", "R", "a", "n", "d", "o", "m", "i", "z", "e", "d", " ", "C", "o", "n", "t", "r", "o", "l", "l", "e", "d", " ", "T", "r", "i", "a", "l">>, <<"r", "a", "n", "d", "o", "m", "i", "s", "e", "d">>, <<"R", "C", "T", " ">>,
                <<"A", " ", "M", "e", "t", "a", "-", "A", "n", "a", "l", "y", "s", "i", "s">>, <<"c", "o", "h", "o", "r", "t", " ">>, <<"s", "y", "s", "t", "e", "m", "a", "t", "i", "c", " ", "r", "e", "v", "i", "e", "w">>,
                <<" ", "s", "t", "u", "d", "y">>, <<"a", "r", "c", "t", "i", "c">>>>

TypeStrings == Concats(TypeTokens, MaxTypeTokens)

TypeInputs ==
    {[EmptyRecord EXCEPT !["TI"] = Str(s)] : s \in TypeStrings}
    \cup {[EmptyRecord EXCEPT !["title"] = Str(s)] : s \in TypeStrings}
    \cup {[Titled EXCEPT ![k] = v] :
            k \in {"AB", "PT", "publication_type"},
            v \in {Str(s) : s \in TypeStrings} \cup {None, StrList(<<<<"r", "c", "t">>>>)}}

UrlShapes ==
    {Absent, None, IntVal(<<"5">>), Str(<<"h", "t", "t", "p", "s", ":", "/", "/", "e", "x", "a", "m", "p", "l", "e", ".", "c", "o", "m", "/", "p", "a", "p", "e", "r">>),
     Str(<<"h", "t", "t", "p", "s", ":", "/", "/", "d", "o", "i", ".", "o", "r", "g", "/", "1", "0", ".", "1", "2", "3", "4", "/", "a", "b", "c">>), Str(<<"f", "t", "p", ":", "/", "/", "x">>),
     StrList(<<<<"h", "t", "t", "p", ":", "/", "/", "a">>, <<"h", "t", "t", "p", ":", "/", "/", "a">>>>),
     List(<<Elem(<<"h", "t", "t", "p", ":", "/", "/", "a">>), NoneElem, Elem(<<"h", "t", "t", "p", ":", "/", "/", "b">>)>>)}

LinkInputs ==
    {[Titled EXCEPT !["DOI"] = d, !["LID"] = a, !["OUR"] = b, !["full_text_url"] = c] :
        d \in {Absent, Str(<<"1", "0", ".", "1", "2", "3", "4", "/", "a", "b", "c">>), Str(<<"n", "o", "d", "o", "i">>), StrList(<<<<"1", "0", ".", "1", "2", "3", "4", "/", "a", "b", "c">>>>)},
        a \in UrlShapes, b \in UrlShapes, c \in {Absent, Str(<<"h", "t", "t", "p", ":", "/", "/", "a">>)}}

TitleShapes ==
    {Absent, None, Str(<<>>), Str(<<" ", " ">>), Str(<<"a", "b">>), Str(<<" ", "a", "b", " ">>), Str(<<"a", "b", "c">>),
     Str(<<"a", " ", "b">>), Str(<<" ", " ", "V", "a", "l", "i", "d", " ", "T", "i", "t", "l", "e", " ", "\n">>), StrList(<<<<"a", "b", "c">>>>), List(<<>>),
     IntVal(<<"1", "2", "3">>), IntVal(<<"0">>)}

TitleInputs ==
    {[EmptyRecord EXCEPT !["TI"] = a, !["title"] = b] : a \in TitleShapes, b \in TitleShapes}

AuthorShapes ==
    {Absent, None, IntVal(<<"5">>), Str(<<>>), Str(<<"S", "m", "i", "t", "h", " ", "J", ",", " ", "J", "o", "h", "n", "s", "o", "n", " ", "M", " ", ",", "x", ",", ",", " ", "y", "y">>),
     StrList(<<<<"S", "m", "i", "t", "h", " ", "J">>, <<" ", "a", " ">>, <<"J", "o", "h", "n", "s", "o", "n", " ", "M">>>>), List(<<>>),
     List(<<Elem(<<"S", "m", "i", "t", "h", " ", "J">>), NoneElem>>)}

AuthorInputs ==
    {[Titled EXCEPT !["AU"] = a, !["authors"] = b, !["FAU"] = c] :
        a \in AuthorShapes, b \in AuthorShapes, c \in {Absent, StrList(<<<<"S", "m", "i", "t", "h", ",", " ", "J", "o", "h", "n">>>>)}}

NormalizerInputs ==
    DoiInputs \cup DateInputs \cup SampleInputs \cup TypeInputs \cup LinkInputs
        \cup TitleInputs \cup AuthorInputs

(***************************************************************************)
(* The normaliser under call: one raw record, one call of one function.    *)
(***************************************************************************)
controllerVars == <<pc, args, feed, delivered, results, logged, reader_log>>

scorerVars == <<data, validation_results, op, report, written>>

NoArgs == [include_cochrane |-> FALSE, include_clinicaltrials |-> FALSE]

\* SystematicReview.__init__: self.results = []
ControllerIdle ==
    /\ pc = "idle" /\ args = NoArgs /\ feed = <<>> /\ delivered = <<>>
    /\ results = <<>> /\ logged = 0 /\ reader_log = <<>>

ScorerIdle ==
    /\ data = <<>> /\ validation_results = <<>>
    /\ op = <<>> /\ report = Return(None) /\ written = <<>>

NormalizerIdle == raw = EmptyRecord /\ fn = "" /\ ret = Return(None) /\ medline = <<>>

normalizerVars == <<raw, fn, ret, medline>>

InitNormalizer ==
    /\ raw \in NormalizerInputs
    /\ fn = ""
    /\ ret = Return(None)
    /\ medline = <<>>
    /\ ControllerIdle
    /\ ScorerIdle

\* one call of function `name` on the raw record, returning or raising `outcome`
Call(name, outcome) ==
    /\ fn = ""
    /\ fn' = name
    /\ ret' = outcome
    /\ UNCHANGED <<raw, medline, controllerVars, scorerVars>>

Call_validate_title ==
    Call("_validate_title",
         _validate_title(Get(raw, "TI", Get(raw, "title", Str(<<>>)))))

Call_extract_authors == Call("_extract_authors", _extract_authors(raw))

Call_extract_doi == Call("_extract_doi", _extract_doi(raw))

Call_extract_year == Call("_extract_year", _extract_year(raw))

Call_extract_sample_size == Call("_extract_sample_size", _extract_sample_size(raw))

Call_detect_study_type == Call("_detect_study_type", _detect_study_type(raw))

Call_extract_full_text_links ==
    Call("_extract_full_text_links", _extract_full_text_links(raw))

Call_extract_metadata == Call("extract_metadata", extract_metadata(raw))

NextNormalizer ==
    \/ Call_validate_title
    \/ Call_extract_authors
    \/ Call_extract_doi
    \/ Call_extract_year
    \/ Call_extract_sample_size
    \/ Call_detect_study_type
    \/ Call_extract_full_text_links
    \/ Call_extract_metadata

SpecNormalizer == InitNormalizer /\ [][NextNormalizer]_vars

(***************************************************************************)
(* Claims about the normaliser, checked under SpecNormalizer.              *)
(***************************************************************************)
\* the value extract_metadata resolves the title from
ResolvedTitle(d) == Get(d, "TI", Get(d, "title", Str(<<>>)))

\* a resolvable title of trimmed length at least 3
UsableTitle(d) == ResolvedTitle(d).t = "str" /\ Len(Strip(ResolvedTitle(d).s)) >= 3

\* C1: extract_metadata succeeds exactly when the raw record has a usable
\* title, and then returns that title trimmed; without one it fails with
\* ValueError.
C1_TitleDecidesExtraction ==
    fn = "extract_metadata" =>
        IF UsableTitle(raw)
        THEN ret.exc = "" /\ ret.val.title = Strip(ResolvedTitle(raw).s)
        ELSE ret.exc = "ValueError"

\* C2: with a usable title extract_metadata returns a record whatever the
\* optional fields hold; a sub-extraction that fails leaves its field
\* absent or empty.
C2_OnlyTheTitleIsFatal ==
    (fn = "extract_metadata" /\ UsableTitle(raw)) =>
        /\ ret.exc = ""
        /\ _extract_authors(raw).exc # "" => ret.val.authors = <<>>
        /\ _extract_doi(raw).exc # "" => ret.val.doi = NoStr

\* w is, as a whole, a string of the DOI syntax 10.NNNN+/suffix: "10.", four
\* to nine digits, a slash, one or more suffix characters
IsDoi(w) ==
    /\ Len(w) >= 3
    /\ w[1] = "1" /\ w[2] = "0" /\ w[3] = "."
    /\ \E k \in 4..9 :
        /\ Len(w) >= 3 + k + 2
        /\ \A j \in 4..(3 + k) : w[j] \in Digit
        /\ w[3 + k + 1] = "/"
        /\ \A j \in (3 + k + 2)..Len(w) : w[j] \in DoiSuffixChar

\* the positions <<i, j>> of the substrings of s that have the DOI syntax
DoiOccurrences(s) ==
    {p \in (1..Len(s)) \X (1..Len(s)) : p[1] <= p[2] /\ IsDoi(SubSeq(s, p[1], p[2]))}

\* the DOI-bearing field _extract_doi reads
DoiField(d) == Get(d, "DOI", Get(d, "doi", Str(<<>>)))

\* C4: for a DOI field that is a string, _extract_doi returns the first
\* (leftmost, longest) substring of the DOI syntax, and None when there is
\* none or no field; never an error, never an empty or malformed value.
C4_DoiIsFirstMatchOrNone ==
    (fn = "_extract_doi" /\ DoiField(raw).t = "str") =>
        LET s == DoiField(raw).s
            occ == DoiOccurrences(s)
            first == CHOOSE p \in occ :
                        \A q \in occ : p[1] < q[1] \/ (p[1] = q[1] /\ p[2] >= q[2])
        IN  /\ ret.exc = ""
            /\ ret.val # SomeStr(<<>>)
            /\ occ = {} => ret.val = NoStr
            /\ occ # {} => ret.val = SomeStr(SubSeq(s, first[1], first[2]))
            /\ ret.val.t = "str" => IsDoi(ret.val.s)

\* raw carries the date string s under DP and no other date key
DateOnlyUnderDP(d, s) ==
    /\ d["DP"] = Str(s)
    /\ \A k \in {"PDAT", "publication_date", "year"} : d[k] = Absent

\* C5: _extract_year returns 2023 for "2023", "2023/01/15", "2023-01-15"
\* and "2023 Jan 15", and None, without error, for "invalid".
C5_YearOfTheFourFormats ==
    fn = "_extract_year" =>
        /\ \A s \in {<<"2", "0", "2", "3">>, <<"2", "0", "2", "3", "/", "0", "1", "/", "1", "5">>, <<"2", "0", "2", "3", "-", "0", "1", "-", "1", "5">>, <<"2", "0", "2", "3", " ", "J", "a", "n", " ", "1", "5">>} :
              DateOnlyUnderDP(raw, s) => ret = Return(SomeInt(2023))
        /\ DateOnlyUnderDP(raw, <<"i", "n", "v", "a", "l", "i", "d">>) => ret = Return(NoInt)

\* C5 witness: the dash-separated date has been parsed
C5_Witness ==
    /\ fn = "_extract_year"
    /\ DateOnlyUnderDP(raw, <<"2", "0", "2", "3", "-", "0", "1", "-", "1", "5">>)
    /\ ret = Return(SomeInt(2023))

\* the first position from i on that holds no whitespace (Len(s) + 1 at the end)
SkipSpaces(s, i) ==
    CHOOSE k \in i..(Len(s) + 1) :
        /\ \A j \in i..(k - 1) : s[j] \in Whitespace
        /\ k > Len(s) \/ s[k] \notin Whitespace

\* the last position of the run of digits that starts at k (k - 1: no digit)
DigitsEnd(s, k) ==
    CHOOSE j \in (k - 1)..Len(s) :
        /\ \A e \in k..j : s[e] \in Digit
        /\ j = Len(s) \/ s[j + 1] \notin Digit

LitAt(s, i, lit) ==
    i + Len(lit) - 1 <= Len(s) /\ SubSeq(s, i, i + Len(lit) - 1) = lit

\* the number that stands at k, spaces skipped, when `after` follows it,
\* spaces skipped; -1 when there is none
NumberThen(s, k, after) ==
    LET b == SkipSpaces(s, k)
        e == DigitsEnd(s, b)
    IN  IF e >= b /\ LitAt(s, SkipSpaces(s, e + 1), after)
        THEN ToInt(SubSeq(s, b, e))
        ELSE -1

\* the number pattern p of the list reports at position i of text, -1 when
\* the pattern does not occur there
SampleAt(p, s, i) ==
    CASE p = 1 ->
            LET eq == SkipSpaces(s, i + 1)
            IN  IF LitAt(s, i, <<"n">>) /\ LitAt(s, eq, <<"=">>)
                THEN NumberThen(s, eq + 1, <<>>) ELSE -1
      [] p = 2 ->
            LET w == i + Len(<<"s", "a", "m", "p", "l", "e", " ", "s", "i", "z", "e", " ">>)
            IN  IF ~LitAt(s, i, <<"s", "a", "m", "p", "l", "e", " ", "s", "i", "z", "e", " ">>) THEN -1
                ELSE IF LitAt(s, w, <<"o", "f">>) THEN NumberThen(s, w + 2, <<>>)
                ELSE IF LitAt(s, w, <<"w", "a", "s">>) THEN NumberThen(s, w + 3, <<>>)
                ELSE IF LitAt(s, w, <<"=">>) THEN NumberThen(s, w + 1, <<>>)
                ELSE -1
      [] p = 3 ->
            IF LitAt(s, i, <<"e", "n", "r", "o", "l", "l", "e", "d">>)
            THEN NumberThen(s, i + Len(<<"e", "n", "r", "o", "l", "l", "e", "d">>), <<"p", "a", "r", "t", "i", "c", "i", "p", "a", "n", "t", "s">>) ELSE -1
      [] p = 4 ->
            IF LitAt(s, i, <<"i", "n", "c", "l", "u", "d", "e", "d">>)
            THEN NumberThen(s, i + Len(<<"i", "n", "c", "l", "u", "d", "e", "d">>), <<"p", "a", "t", "i", "e", "n", "t", "s">>) ELSE -1

\* the positions of text where pattern p occurs
SampleOccurrences(p, s) == {i \in 1..Len(s) : SampleAt(p, s, i) # -1}

\* the text of a key that is absent or a string
TextOf(d, key) == Get(d, key, Str(<<>>)).s

\* C6: _extract_sample_size returns the number of the first pattern, in
\* list order, that occurs anywhere in the lower-cased text "AB abstract
\* methods" (at its leftmost occurrence), and None when no pattern occurs;
\* the three texts of the test give 500, 300 and 250.
C6_SampleSizeIsFirstPattern ==
    (fn = "_extract_sample_size"
        /\ \A k \in {"AB", "abstract", "methods"} : raw[k].t \in {"absent", "str"}) =>
        LET text == Lower(TextOf(raw, "AB") \o <<" ">> \o TextOf(raw, "abstract")
                            \o <<" ">> \o TextOf(raw, "methods"))
            hits == {p \in 1..4 : SampleOccurrences(p, text) # {}}
            p1 == CHOOSE p \in hits : \A q \in hits : p <= q
            i1 == CHOOSE i \in SampleOccurrences(p1, text) :
                      \A j \in SampleOccurrences(p1, text) : i <= j
        IN  /\ hits = {} => ret = Return(NoInt)
            /\ hits # {} => ret = Return(SomeInt(SampleAt(p1, text, i1)))
            /\ raw["AB"] = Str(<<"T", "h", "i", "s", " ", "s", "t", "u", "d", "y", " ", "i", "n", "c", "l", "u", "d", "e", "d", " ", "n", "=", "5", "0", "0", " ", "p", "a", "r", "t", "i", "c", "i", "p", "a", "n", "t", "s">>)
                  /\ raw["abstract"] = Absent /\ raw["methods"] = Absent
                  => ret = Return(SomeInt(500))
            /\ raw["AB"] = Str(<<"s", "a", "m", "p", "l", "e", " ", "s", "i", "z", "e", " ", "o", "f", " ", "3", "0", "0">>)
                  /\ raw["abstract"] = Absent /\ raw["methods"] = Absent
                  => ret = Return(SomeInt(300))
            /\ raw["AB"] = Str(<<"e", "n", "r", "o", "l", "l", "e", "d", " ", "2", "5", "0", " ", "p", "a", "r", "t", "i", "c", "i", "p", "a", "n", "t", "s">>)
                  /\ raw["abstract"] = Absent /\ raw["methods"] = Absent
                  => ret = Return(SomeInt(250))

\* C6 witness: a text in which the fourth pattern occurs before the first,
\* and the first pattern's number is returned
C6_Witness ==
    /\ fn = "_extract_sample_size"
    /\ raw["AB"] = Str(<<"i", "n", "c", "l", "u", "d", "e", "d", " ", "3", "0", " ", "p", "a", "t", "i", "e", "n", "t", "s", " ", "n", "=", "7", " ">>)
    /\ ret = Return(SomeInt(7))

\* the title text of an accepted record, case-folded
TitleText(d) == Lower(ResolvedTitle(d).s)

\* the case-folded texts of every field that can name a study type
TypeTexts(d) ==
    {Lower(d[k].s) : k \in {"TI", "title", "AB", "PT", "publication_type"}}

AllKeywords ==
    {<<"r", "a", "n", "d", "o", "m", "i", "z", "e", "d">>, <<"r", "a", "n", "d", "o", "m", "i", "s", "e", "d">>, <<"r", "c", "t">>, <<"c", "o", "h", "o", "r", "t">>, <<"l", "o", "n", "g", "i", "t", "u", "d", "i", "n", "a", "l">>,
     <<"c", "a", "s", "e", "-", "c", "o", "n", "t", "r", "o", "l">>, <<"c", "a", "s", "e", " ", "c", "o", "n", "t", "r", "o", "l">>, <<"m", "e", "t", "a", "-", "a", "n", "a", "l", "y", "s", "i", "s">>, <<"m", "e", "t", "a", " ", "a", "n", "a", "l", "y", "s", "i", "s">>,
     <<"s", "y", "s", "t", "e", "m", "a", "t", "i", "c", " ", "r", "e", "v", "i", "e", "w">>, <<"o", "b", "s", "e", "r", "v", "a", "t", "i", "o", "n", "a", "l">>, <<"c", "r", "o", "s", "s", "-", "s", "e", "c", "t", "i", "o", "n", "a", "l">>}

\* C7: in a record extract_metadata accepts, a title (under TI or title)
\* that contains "randomized", "randomised" or "rct" in any case gives
\* study_type "RCT"; one that contains "meta-analysis" and no keyword of an
\* earlier category gives "Meta-Analysis"; no keyword in any text gives None.
C7_StudyTypeFromTitle ==
    (fn = "extract_metadata" /\ ret.exc = "") =>
        LET text == TitleText(raw)
            has(kws) == \E kw \in kws : Contains(text, kw)
        IN  /\ has({<<"r", "a", "n", "d", "o", "m", "i", "z", "e", "d">>, <<"r", "a", "n", "d", "o", "m", "i", "s", "e", "d">>, <<"r", "c", "t">>})
                  => ret.val.study_type = SomeStr(<<"R", "C", "T">>)
            /\ (has({<<"m", "e", "t", "a", "-", "a", "n", "a", "l", "y", "s", "i", "s">>})
                  /\ ~has({<<"r", "a", "n", "d", "o", "m", "i", "z", "e", "d">>, <<"r", "a", "n", "d", "o", "m", "i", "s", "e", "d">>, <<"r", "c", "t">>, <<"c", "o", "h", "o", "r", "t">>,
                           <<"l", "o", "n", "g", "i", "t", "u", "d", "i", "n", "a", "l">>, <<"c", "a", "s", "e", "-", "c", "o", "n", "t", "r", "o", "l">>, <<"c", "a", "s", "e", " ", "c", "o", "n", "t", "r", "o", "l">>}))
                  => ret.val.study_type = SomeStr(<<"M", "e", "t", "a", "-", "A", "n", "a", "l", "y", "s", "i", "s">>)
            /\ (\A t \in TypeTexts(raw) : \A kw \in AllKeywords : ~Contains(t, kw))
                  => ret.val.study_type = NoStr

\* the http(s) URLs the URL-bearing fields of d hold
FieldUrls(d) ==
    UNION {IF d[k].t = "str" THEN (IF IsHttpUrl(d[k].s) THEN {d[k].s} ELSE {})
           ELSE {d[k].l[i].s : i \in {j \in 1..Len(d[k].l) :
                                        d[k].l[j].t = "str" /\ IsHttpUrl(d[k].l[j].s)}} :
           k \in {"LID", "OUR", "full_text_url"}}

\* C8: _extract_full_text_links returns a list without duplicates that holds
\* exactly one https://doi.org/{doi} entry when _extract_doi resolves a DOI
\* for the record, and only URLs of the fields when it resolves none,
\* whatever the URL-bearing fields hold.
C8_ExactlyOneDoiLink ==
    fn = "_extract_full_text_links" =>
        LET links == ret.val
            doi == _extract_doi(raw)
            resolved == doi.exc = "" /\ doi.val.t = "str"
        IN  /\ ret.exc = ""
            /\ \A i, j \in 1..Len(links) : links[i] = links[j] => i = j
            /\ resolved =>
                  Cardinality({i \in 1..Len(links) : links[i] = DoiLink(doi.val.s)}) = 1
            /\ ~resolved => \A i \in 1..Len(links) : links[i] \in FieldUrls(raw)

(***************************************************************************)
(* PubMedExtractor (src/src/extractors/pubmed.py): search, fetch_details   *)
(* and the MEDLINE parser.  The dict the parser builds is a sequence of    *)
(* key/value pairs in insertion order, no key twice.                       *)
(***************************************************************************)
HasKey(dict, key) == \E i \in 1..Len(dict) : dict[i].key = key

\* dict[key]
DictGet(dict, key) == dict[CHOOSE i \in 1..Len(dict) : dict[i].key = key].value

\* dict[key] = value: a key the dict has keeps its place and loses its value
DictSet(dict, key, value) ==
    IF HasKey(dict, key)
    THEN [i \in 1..Len(dict) |->
             IF dict[i].key = key THEN [key |-> key, value |-> value] ELSE dict[i]]
    ELSE Append(dict, [key |-> key, value |-> value])

\* str.split(sep, 1): one piece when sep does not occur, else two
SplitOnce(s, sep) ==
    LET piece == TakeUntil(s, {sep})
    IN  IF Len(piece) = Len(s) THEN <<s>>
        ELSE <<piece, SubSeq(s, Len(piece) + 2, Len(s))>>

\* the loop of _parse_medline from line i on; current_field is <<>> while
\* it is None (an empty field name is as falsy as None)
RECURSIVE ParseMedlineLines(_, _, _, _)
ParseMedlineLines(lines, i, dict, current_field) ==
    IF i > Len(lines) THEN Return(dict)
    ELSE LET line == lines[i]
             parts == SplitOnce(line, "-")
         IN  IF Strip(line) = <<>>
             THEN ParseMedlineLines(lines, i + 1, dict, current_field)
             ELSE IF StartsWith(line, <<" ", " ", " ", " ", " ", " ">>)
             THEN IF current_field # <<>>
                  THEN ParseMedlineLines(lines, i + 1,
                           DictSet(dict, current_field,
                                   DictGet(dict, current_field) \o <<" ">> \o Strip(line)),
                           current_field)
                  ELSE ParseMedlineLines(lines, i + 1, dict, current_field)
             ELSE IF StartsWith(line, <<"P", "M", "I", "D">>)
             THEN IF Len(parts) < 2 THEN Raise("IndexError")
                  ELSE ParseMedlineLines(lines, i + 1,
                           DictSet(dict, <<"p", "m", "i", "d">>, Strip(parts[2])), current_field)
             ELSE IF Len(parts) < 2
             THEN ParseMedlineLines(lines, i + 1, dict, current_field)
             ELSE ParseMedlineLines(lines, i + 1,
                      DictSet(dict, Strip(parts[1]), Strip(parts[2])), Strip(parts[1]))

_parse_medline(record) == ParseMedlineLines(SplitOn(record, "\n"), 1, <<>>, <<>>)

\* the characters of the keys PaperDataExtractor reads
KeyChars ==
    [k \in Keys |->
        CASE k = "TI" -> <<"T", "I">> [] k = "title" -> <<"t", "i", "t", "l", "e">>
          [] k = "AU" -> <<"A", "U">> [] k = "authors" -> <<"a", "u", "t", "h", "o", "r", "s">> [] k = "FAU" -> <<"F", "A", "U">>
          [] k = "DOI" -> <<"D", "O", "I">> [] k = "doi" -> <<"d", "o", "i">>
          [] k = "DP" -> <<"D", "P">> [] k = "PDAT" -> <<"P", "D", "A", "T">>
          [] k = "publication_date" -> <<"p", "u", "b", "l", "i", "c", "a", "t", "i", "o", "n", "_", "d", "a", "t", "e">> [] k = "year" -> <<"y", "e", "a", "r">>
          [] k = "AB" -> <<"A", "B">> [] k = "abstract" -> <<"a", "b", "s", "t", "r", "a", "c", "t">>
          [] k = "methods" -> <<"m", "e", "t", "h", "o", "d", "s">> [] k = "PT" -> <<"P", "T">>
          [] k = "publication_type" -> <<"p", "u", "b", "l", "i", "c", "a", "t", "i", "o", "n", "_", "t", "y", "p", "e">>
          [] k = "LID" -> <<"L", "I", "D">> [] k = "OUR" -> <<"O", "U", "R">>
          [] k = "full_text_url" -> <<"f", "u", "l", "l", "_", "t", "e", "x", "t", "_", "u", "r", "l">>]

\* the parsed dict as the raw record extract_metadata reads: the keys it
\* looks up, each a str or absent
MedlineRecord(dict) ==
    [k \in Keys |-> IF HasKey(dict, KeyChars[k]) THEN Str(DictGet(dict, KeyChars[k]))
                    ELSE Absent]

\* PubMedExtractor.search without its try/except: a variant
PubMedExtractor_search_Propagates(esearch) == esearch

\* PubMedExtractor.search: the IdList, or [] when anything raises
PubMedExtractor_search(esearch) ==
    IF esearch.exc # "" THEN Return(<<>>) ELSE Return(esearch.val)

\* PubMedExtractor.fetch_details: the parsed record, or {} when efetch or
\* the parser raises
PubMedExtractor_fetch_details(efetch) ==
    IF efetch.exc # "" THEN Return(EmptyRecord)
    ELSE IF _parse_medline(efetch.val).exc # "" THEN Return(EmptyRecord)
    ELSE Return(MedlineRecord(_parse_medline(efetch.val).val))

\* the response of the test fixture (tests/conftest.py)
FixtureMedline ==
    <<"P", "M", "I", "D", "-", " ", "1", "2", "3", "4", "5", "6", "7", "8", "\n", "T", "I", " ", " ", "-", " ", "M", "a", "c", "h", "i", "n", "e", " ", "L", "e", "a", "r", "n", "i", "n", "g", " ", "i", "n", " ", "S", "y", "s", "t", "e", "m", "a", "t", "i", "c", " ", "R", "e", "v", "i", "e", "w", "s", ":", " ", "A", " ", "C", "o", "m", "p", "r", "e", "h", "e", "n", "s", "i", "v", "e", " ", "S", "t", "u", "d", "y", "\n", "A", "U", " ", " ", "-", " ", "S", "m", "i", "t", "h", " ", "J", "\n", "A", "U", " ", " ", "-", " ", "J", "o", "h", "n", "s", "o", "n", " ", "M", "\n", "A", "U", " ", " ", "-", " ", "W", "i", "l", "l", "i", "a", "m", "s", " ", "R", "\n", "D", "P", " ", " ", "-", " ", "2", "0", "2", "3", " ", "J", "a", "n", " ", "1", "5", "\n", "A", "B", " ", " ", "-", " ", "B", "a", "c", "k", "g", "r", "o", "u", "n", "d", ":", " ", "T", "h", "i", "s", " ", "s", "t", "u", "d", "y", " ", "(", "n", "=", "5", "0", "0", ")", " ", "e", "v", "a", "l", "u", "a", "t", "e", "s", " ", "m", "a", "c", "h", "i", "n", "e", " ", "l", "e", "a", "r", "n", "i", "n", "g", " ", "a", "p", "p", "r", "o", "a", "c", "h", "e", "s", ".", "\n", "D", "O", "I", " ", "-", " ", "1", "0", ".", "1", "2", "3", "4", "/", "e", "x", "a", "m", "p", "l", "e", ".", "1", "2", "3", "4", "5", "\n", "P", "T", " ", " ", "-", " ", "J", "o", "u", "r", "n", "a", "l", " ", "A", "r", "t", "i", "c", "l", "e", "\n", "P", "T", " ", " ", "-", " ", "R", "a", "n", "d", "o", "m", "i", "z", "e", "d", " ", "C", "o", "n", "t", "r", "o", "l", "l", "e", "d", " ", "T", "r", "i", "a", "l">>

\* what Entrez.efetch does for a PMID: it answers with the fixture text, it
\* raises, it answers with the text of a record of the year 1750, or with a
\* text the parser fails on
EfetchOutcomes ==
    << Return(FixtureMedline),
       Raise("Exception"),
       Return(<<"t", "i", "t", "l", "e", " ", "-", " ", "A", "n", " ", "o", "l", "d", " ", "t", "r", "i", "a", "l", "\n", "y", "e", "a", "r", " ", "-", " ", "1", "7", "5", "0">>),
       Return(<<"P", "M", "I", "D", " ", "1">>) >>

(***************************************************************************)
(* SystematicReview.search_databases (src/src/review.py): the readers      *)
(* return lists of raw records; every record goes through extract_metadata.*)
(***************************************************************************)
\* the records in a run of the controller, over all sources
MaxRecords == 3

\* the MEDLINE record of the test fixture, as _parse_medline returns it
\* (the last line of a repeated tag is the one kept)
FixtureRecord ==
    [EmptyRecord EXCEPT
        !["TI"] = Str(<<"M", "a", "c", "h", "i", "n", "e", " ", "L", "e", "a", "r", "n", "i", "n", "g", " ", "i", "n", " ", "S", "y", "s", "t", "e", "m", "a", "t", "i", "c", " ", "R", "e", "v", "i", "e", "w", "s", ":", " ", "A", " ", "C", "o", "m", "p", "r", "e", "h", "e", "n", "s", "i", "v", "e", " ", "S", "t", "u", "d", "y">>),
        !["AU"] = Str(<<"W", "i", "l", "l", "i", "a", "m", "s", " ", "R">>),
        !["DP"] = Str(<<"2", "0", "2", "3", " ", "J", "a", "n", " ", "1", "5">>),
        !["AB"] = Str(<<"B", "a", "c", "k", "g", "r", "o", "u", "n", "d", ":", " ", "T", "h", "i", "s", " ", "s", "t", "u", "d", "y", " ", "(", "n", "=", "5", "0", "0", ")", " ", "e", "v", "a", "l", "u", "a", "t", "e", "s", " ", "m", "a", "c", "h", "i", "n", "e", " ", "l", "e", "a", "r", "n", "i", "n", "g", " ", "a", "p", "p", "r", "o", "a", "c", "h", "e", "s", ".">>),
        !["DOI"] = Str(<<"1", "0", ".", "1", "2", "3", "4", "/", "e", "x", "a", "m", "p", "l", "e", ".", "1", "2", "3", "4", "5">>),
        !["PT"] = Str(<<"R", "a", "n", "d", "o", "m", "i", "z", "e", "d", " ", "C", "o", "n", "t", "r", "o", "l", "l", "e", "d", " ", "T", "r", "i", "a", "l">>)]

\* what the readers can return: the fixture record, the empty record of a
\* failed fetch, a Cochrane-shaped record, a record of the year 1750, a
\* record whose DOI is a list
ReaderPool ==
    << FixtureRecord,
       EmptyRecord,
       [EmptyRecord EXCEPT !["title"] = Str(<<"A", " ", "C", "o", "c", "h", "r", "a", "n", "e", " ", "r", "e", "v", "i", "e", "w", " ">>),
                           !["authors"] = Str(<<"S", "m", "i", "t", "h", " ", "J", ",", " ", "J", "o", "h", "n", "s", "o", "n", " ", "M">>)],
       [EmptyRecord EXCEPT !["title"] = Str(<<"A", "n", " ", "o", "l", "d", " ", "t", "r", "i", "a", "l">>), !["year"] = Str(<<"1", "7", "5", "0">>)],
       [EmptyRecord EXCEPT !["TI"] = Str(<<"A", " ", "t", "r", "i", "a", "l">>),
                           !["DOI"] = StrList(<<<<"1", "0", ".", "1", "2", "3", "4", "/", "a", "b", "c">>>>)] >>

\* every list of at most n records of the pool, each record named by its
\* place in the pool
RECURSIVE RecordLists(_)
RecordLists(n) ==
    IF n = 0 THEN {<<>>}
    ELSE LET shorter == RecordLists(n - 1)
         IN  shorter \cup {Append(l, i) : l \in shorter, i \in 1..Len(ReaderPool)}

\* the lists a reader can return now
ReaderLists == RecordLists(MaxRecords - Len(delivered))

\* every list of at most n PMIDs
RECURSIVE PmidLists(_)
PmidLists(n) ==
    IF n = 0 THEN {<<>>}
    ELSE LET shorter == PmidLists(n - 1)
         IN  shorter \cup {Append(l, i) : l \in shorter, i \in 1..Len(EfetchOutcomes)}

\* the record a loop hands to extract_metadata for entry i of its list: what
\* fetch_details returns for the PMID, or the record of the list itself
Article(source, i) ==
    IF source = "pubmed" THEN PubMedExtractor_fetch_details(EfetchOutcomes[i]).val
    ELSE ReaderPool[i]

\* self.paper_extractor.extract_metadata(article) for each entry a list can
\* hold, worked out once
ExtractedOf ==
    [source \in {"pubmed", "reader"} |->
        [i \in 1..(IF source = "pubmed" THEN Len(EfetchOutcomes) ELSE Len(ReaderPool)) |->
            extract_metadata(Article(source, i))]]

Extracted(source, i) ==
    ExtractedOf[IF source = "pubmed" THEN "pubmed" ELSE "reader"][i]

Tagged(source, recs) == [i \in 1..Len(recs) |-> <<source, recs[i]>>]

\* a variant of the call in which self.results is emptied first
SearchPubMedAt_Resets(at) ==
    /\ pc = at
    /\ \E ic \in BOOLEAN, ict \in BOOLEAN :
          args' = [include_cochrane |-> ic, include_clinicaltrials |-> ict]
    /\ \E ids \in PmidLists(MaxRecords - Len(delivered)) :
          /\ feed' = ids
          /\ delivered' = delivered \o Tagged("pubmed", ids)
          /\ pc' = "pubmed"
          /\ reader_log' = Append(reader_log, "esearch")
    /\ results' = <<>>
    /\ UNCHANGED <<logged, normalizerVars, scorerVars>>

\* the call, made when the controller is at `at`, and the PubMed search
\* with it: pubmed.search returns the PMIDs of esearch, or [] when esearch
\* raises; the call is outside any try
SearchPubMedAt(at) ==
    /\ pc = at
    /\ \E ic \in BOOLEAN, ict \in BOOLEAN :
          args' = [include_cochrane |-> ic, include_clinicaltrials |-> ict]
    /\ \E ids \in PmidLists(MaxRecords - Len(delivered)), raises \in BOOLEAN :
          /\ \E pmids \in {PubMedExtractor_search(IF raises THEN Raise("Exception")
                                                  ELSE Return(ids))} :
                IF pmids.exc = ""
                THEN /\ feed' = pmids.val
                     /\ delivered' = delivered \o Tagged("pubmed", pmids.val)
                     /\ pc' = "pubmed"
                ELSE /\ pc' = "raised"
                     /\ UNCHANGED <<feed, delivered>>
          /\ reader_log' = Append(reader_log, IF raises THEN "esearch raised" ELSE "esearch")
    /\ UNCHANGED <<results, logged, normalizerVars, scorerVars>>

\* the first call on a new SystematicReview
SearchPubMed == SearchPubMedAt("idle")

\* the reader call of one turn of a loop: fetch_details in the PubMed loop,
\* none in the others
FetchLogged ==
    IF pc = "pubmed"
    THEN Append(reader_log, IF EfetchOutcomes[Head(feed)].exc # "" THEN "efetch raised"
                            ELSE "efetch")
    ELSE reader_log

\* a variant in which a rejected record ends the loop of its source
ProcessRecord_StopsAtRejected ==
    /\ pc \in {"pubmed", "cochrane", "clinicaltrials"}
    /\ feed # <<>>
    /\ \E metadata \in {Extracted(pc, Head(feed))} :
           IF metadata.exc = ""
           THEN /\ results' = Append(results, [source |-> pc, data |-> metadata.val])
                /\ feed' = Tail(feed)
                /\ UNCHANGED <<pc, logged>>
           ELSE /\ logged' = logged + 1
                /\ feed' = <<>>
                /\ UNCHANGED <<pc, results>>
    /\ reader_log' = FetchLogged
    /\ UNCHANGED <<args, delivered, normalizerVars, scorerVars>>

\* a variant in which the new entry is put in front of self.results
ProcessRecord_Prepends ==
    /\ pc \in {"pubmed", "cochrane", "clinicaltrials"}
    /\ feed # <<>>
    /\ \E metadata \in {Extracted(pc, Head(feed))} :
           IF metadata.exc = ""
           THEN /\ results' = <<[source |-> pc, data |-> metadata.val]>> \o results
                /\ UNCHANGED <<pc, logged>>
           ELSE /\ logged' = logged + 1
                /\ UNCHANGED <<pc, results>>
    /\ feed' = Tail(feed)
    /\ reader_log' = FetchLogged
    /\ UNCHANGED <<args, delivered, normalizerVars, scorerVars>>

\* one turn of a source's loop: (fetch_details, then) extract_metadata inside
\* try/except ValueError
ProcessRecord ==
    /\ pc \in {"pubmed", "cochrane", "clinicaltrials"}
    /\ feed # <<>>
    /\ \E metadata \in {Extracted(pc, Head(feed))} :
           IF metadata.exc = ""
           THEN /\ results' = Append(results, [source |-> pc, data |-> metadata.val])
                /\ UNCHANGED <<pc, logged>>
           ELSE IF metadata.exc = "ValueError"
           THEN /\ logged' = logged + 1
                /\ UNCHANGED <<pc, results>>
           ELSE \* any other exception leaves search_databases
                /\ pc' = "raised"
                /\ UNCHANGED <<results, logged>>
    /\ feed' = Tail(feed)
    /\ reader_log' = FetchLogged
    /\ UNCHANGED <<args, delivered, normalizerVars, scorerVars>>

SearchCochrane ==
    /\ pc = "pubmed" /\ feed = <<>>
    /\ args.include_cochrane
    /\ \E recs \in ReaderLists :
          /\ feed' = recs
          /\ delivered' = delivered \o Tagged("cochrane", recs)
    /\ pc' = "cochrane"
    /\ reader_log' = Append(reader_log, "cochrane.search")
    /\ UNCHANGED <<args, results, logged, normalizerVars, scorerVars>>

SkipCochrane ==
    /\ pc = "pubmed" /\ feed = <<>>
    /\ ~args.include_cochrane
    /\ pc' = "cochrane"
    /\ UNCHANGED <<args, feed, delivered, results, logged, reader_log, normalizerVars, scorerVars>>

SearchClinicalTrials ==
    /\ pc = "cochrane" /\ feed = <<>>
    /\ args.include_clinicaltrials
    /\ \E recs \in ReaderLists :
          /\ feed' = recs
          /\ delivered' = delivered \o Tagged("clinicaltrials", recs)
    /\ pc' = "clinicaltrials"
    /\ reader_log' = Append(reader_log, "clinicaltrials.search")
    /\ UNCHANGED <<args, results, logged, normalizerVars, scorerVars>>

SkipClinicalTrials ==
    /\ pc = "cochrane" /\ feed = <<>>
    /\ ~args.include_clinicaltrials
    /\ pc' = "clinicaltrials"
    /\ UNCHANGED <<args, feed, delivered, results, logged, reader_log, normalizerVars, scorerVars>>

\* search_databases returns
ReturnFromSearch ==
    /\ pc = "clinicaltrials" /\ feed = <<>>
    /\ pc' = "done"
    /\ UNCHANGED <<args, feed, delivered, results, logged, reader_log, normalizerVars, scorerVars>>

Init == NormalizerIdle /\ ControllerIdle /\ ScorerIdle

Next ==
    \/ SearchPubMed
    \/ ProcessRecord
    \/ SearchCochrane
    \/ SkipCochrane
    \/ SearchClinicalTrials
    \/ SkipClinicalTrials
    \/ ReturnFromSearch

Spec == Init /\ [][Next]_vars

\* the entries search_databases is to leave for the records delivered so far
\* and already processed
RECURSIVE ExpectedResults(_)
ExpectedResults(recs) ==
    IF recs = <<>> THEN <<>>
    ELSE LET init == ExpectedResults(SubSeq(recs, 1, Len(recs) - 1))
             last == recs[Len(recs)]
             m == Extracted(last[1], last[2])
         IN  IF m.exc = "" THEN Append(init, [source |-> last[1], data |-> m.val])
             ELSE init

\* C3: search_databases never raises, and when it returns self.results holds
\* one entry, tagged with its source, for each delivered record that
\* extract_metadata accepts, in the order delivered, and none for the
\* others; each rejected record is logged and the loop goes on.
C3_OneEntryPerAcceptedRecord ==
    /\ pc # "raised"
    /\ pc = "done" =>
          /\ results = ExpectedResults(delivered)
          /\ logged = Len(delivered) - Len(results)

\* C3 witness: a run has ended in which a rejected record was followed by an
\* accepted one of the same source and by an accepted one of a later source
C3_Witness ==
    /\ pc = "done"
    /\ Len(delivered) = 3
    /\ delivered[1][1] = "pubmed" /\ Article("pubmed", delivered[1][2]) = EmptyRecord
    /\ delivered[2][1] = "pubmed" /\ Article("pubmed", delivered[2][2]) = FixtureRecord
    /\ delivered[3][1] = "clinicaltrials"
    /\ Len(results) = 2
    /\ results[2].source = "clinicaltrials"


(***************************************************************************)
(* The scorers: DataValidator (exporters/validator.py) and QualityChecker  *)
(* (validation/quality_checker.py), both over a pandas DataFrame built     *)
(* from the collection of PaperMetadata records.  Scores are Python floats *)
(* in the code; here they are exact fractions in lowest terms.             *)
(***************************************************************************)
RECURSIVE GCD(_, _)
GCD(a, b) == IF b = 0 THEN a ELSE GCD(b, a % b)

Abs(n) == IF n < 0 THEN 0 - n ELSE n

\* the number n / d, d > 0
Rat(n, d) ==
    LET g == GCD(Abs(n), d)
    IN  [num |-> n \div g, den |-> d \div g]

RatInt(n) == [num |-> n, den |-> 1]

RatAdd(x, y) == Rat(x.num * y.den + y.num * x.den, x.den * y.den)

RatMul(x, y) == Rat(x.num * y.num, x.den * y.den)

RatLess(x, y) == x.num * y.den < y.num * x.den

RatMax(x, y) == IF RatLess(x, y) THEN y ELSE x

RECURSIVE RatSum(_)
RatSum(xs) == IF xs = <<>> THEN RatInt(0) ELSE RatAdd(Head(xs), RatSum(Tail(xs)))

\* the year datetime.now().year gives
CurrentYear == 2026

\* the fields of the PaperMetadata dataclass
MetadataFields ==
    {"title", "authors", "doi", "year", "sample_size", "study_type", "full_text_links"}

\* pd.DataFrame(data).columns: a frame built from no record has no column
Columns(df) == IF df = <<>> THEN {} ELSE MetadataFields

\* Series.notna() of one cell: None and NaN are missing, '' and [] are not
NotNa(record, field) ==
    IF field \in {"doi", "year", "sample_size", "study_type"}
    THEN record[field].t # "none"
    ELSE TRUE

\* df[field].notna().mean() * 100
NotNaPercent(df, field) ==
    Rat(100 * Cardinality({i \in 1..Len(df) : NotNa(df[i], field)}), Len(df))

\* the dtype pandas infers for a column of Optional[int]: numpy int64 when
\* every cell is an int, float64 (None becomes NaN) when some are, object
\* when none is
Dtype(df, field) ==
    IF \A i \in 1..Len(df) : df[i][field].t = "int" THEN "int64"
    ELSE IF \A i \in 1..Len(df) : df[i][field].t = "none" THEN "object"
    ELSE "float64"

\* df[condition].index.tolist(): the 0-based labels, in order, of the rows
\* where the condition is True
RowsWhere(df, rows) ==
    SelectSeq([i \in 1..Len(df) |-> i - 1], LAMBDA k : k + 1 \in rows)

\* a variant in which a missing year compares as a year before every bound
InvalidYear_MissingIsOutOfRange(record, lower) ==
    \/ record.year.t = "none"
    \/ record.year.n < lower
    \/ record.year.n > CurrentYear

\* year < lower or year > now; a comparison with None or NaN is False
InvalidYear(record, lower) ==
    /\ record.year.t = "int"
    /\ (record.year.n < lower \/ record.year.n > CurrentYear)

InvalidSample(record) == record.sample_size.t = "int" /\ record.sample_size.n <= 0

\* isinstance(authors, list)
IsList(authors) == authors \in Seq(Seq(Alphabet))

\* df['doi'].str.match(doi_pattern, na=True) of one cell
DoiCellMatches(doi) == doi.t = "none" \/ Match(DOI_PATTERN, doi.s, 1).ok

(***************************** DataValidator *******************************)
DataValidator_required_fields ==
    << [field |-> "title", threshold |-> 100],
       [field |-> "authors", threshold |-> 100],
       [field |-> "year", threshold |-> 90],
       [field |-> "study_type", threshold |-> 80],
       [field |-> "sample_size", threshold |-> 70] >>

\* returns the percentages and appends one warning to validation_results
\* (vr) for each field below its threshold
DataValidator_check_completeness(df, vr) ==
    LET present == SelectSeq(DataValidator_required_fields,
                             LAMBDA r : r.field \in Columns(df))
        completeness == [f \in {present[i].field : i \in 1..Len(present)} |->
                            NotNaPercent(df, f)]
        low == SelectSeq(present,
                         LAMBDA r : RatLess(completeness[r.field], RatInt(r.threshold)))
        warnings == [i \in 1..Len(low) |->
                        [warning |-> "Completeness warning", field |-> low[i].field,
                         percent |-> completeness[low[i].field],
                         threshold |-> low[i].threshold]]
    IN  [exc |-> "", val |-> completeness, vr |-> vr \o warnings]

\* the module never imports numpy: evaluating np.int64 raises NameError
DataValidator_check_year_consistency(df) ==
    IF "year" \notin Columns(df) THEN Return(TRUE) ELSE Raise("NameError")

DataValidator_check_author_format(df) ==
    IF "authors" \notin Columns(df) THEN TRUE
    ELSE \A i \in 1..Len(df) : IsList(df[i].authors)

DataValidator_check_doi_format(df) ==
    IF "doi" \notin Columns(df) THEN TRUE
    ELSE \A i \in 1..Len(df) : DoiCellMatches(df[i].doi)

DataValidator_check_consistency(df) ==
    LET valid_years == DataValidator_check_year_consistency(df)
    IN  IF valid_years.exc # "" THEN Raise(valid_years.exc)
        ELSE Return([valid_years |-> valid_years.val,
                     author_format |-> DataValidator_check_author_format(df),
                     doi_format |-> DataValidator_check_doi_format(df)])

DataValidator_check_validity(df) ==
    [f \in {"year", "sample_size"} \cap Columns(df) |->
        IF f = "year"
        THEN RowsWhere(df, {i \in 1..Len(df) : InvalidYear(df[i], 1900)})
        ELSE RowsWhere(df, {i \in 1..Len(df) : InvalidSample(df[i])})]

\* sum(completeness.values()) / len(completeness)
DataValidator_completeness_score(df, vr) ==
    LET completeness == DataValidator_check_completeness(df, vr)
        fields == SelectSeq(DataValidator_required_fields,
                            LAMBDA r : r.field \in DOMAIN completeness.val)
        values == [i \in 1..Len(fields) |-> completeness.val[fields[i].field]]
    IN  IF Len(fields) = 0
        THEN [exc |-> "ZeroDivisionError", val |-> RatInt(0), vr |-> completeness.vr]
        ELSE [exc |-> "", val |-> RatMul(RatSum(values), Rat(1, Len(fields))),
              vr |-> completeness.vr]

\* sum(1 for check in consistency.values() if check) / len(consistency) * 100
DataValidator_consistency_score_of(consistency) ==
    IF consistency.exc # "" THEN Raise(consistency.exc)
    ELSE Return(Rat(100 * Cardinality({check \in DOMAIN consistency.val :
                                            consistency.val[check]}), 3))

DataValidator_consistency_score(df) ==
    DataValidator_consistency_score_of(DataValidator_check_consistency(df))

\* max(0, 100 - (total_issues / len(self.df) * 100))
DataValidator_validity_score(df) ==
    LET validity == DataValidator_check_validity(df)
        total_issues == IF DOMAIN validity = {} THEN 0
                        ELSE Len(validity["year"]) + Len(validity["sample_size"])
    IN  IF Len(df) = 0 THEN Raise("ZeroDivisionError")
        ELSE Return(RatMax(RatInt(0),
                           RatAdd(RatInt(100), Rat(0 - 100 * total_issues, Len(df)))))

\* the weighted sum of the three scores, computed in this order; the first
\* that raises ends the computation
DataValidator_quality_score_of(completeness, consistency, validity) ==
    IF completeness.exc # ""
    THEN [exc |-> completeness.exc, val |-> RatInt(0), vr |-> completeness.vr]
    ELSE IF consistency.exc # ""
    THEN [exc |-> consistency.exc, val |-> RatInt(0), vr |-> completeness.vr]
    ELSE IF validity.exc # ""
    THEN [exc |-> validity.exc, val |-> RatInt(0), vr |-> completeness.vr]
    ELSE [exc |-> "",
          val |-> RatSum(<<RatMul(completeness.val, Rat(4, 10)),
                           RatMul(consistency.val, Rat(3, 10)),
                           RatMul(validity.val, Rat(3, 10))>>),
          vr |-> completeness.vr]

DataValidator_calculate_quality_score(df, vr) ==
    DataValidator_quality_score_of(DataValidator_completeness_score(df, vr),
                                   DataValidator_consistency_score(df),
                                   DataValidator_validity_score(df))

\* the validation_date entry, the time of the call, is left out
DataValidator_validation_summary_of(quality_score) ==
    [exc |-> quality_score.exc,
     val |-> [quality_score |-> quality_score.val,
              total_issues |-> Len(quality_score.vr)],
     vr |-> quality_score.vr]

DataValidator_generate_validation_summary(df, vr) ==
    DataValidator_validation_summary_of(DataValidator_calculate_quality_score(df, vr))

\* the dict {} : no key
EmptyDict == [key \in {} |-> None]

\* the dict of the four results; an exception in one of them is logged and
\* {} returned, and the warnings appended to validation_results before the
\* exception stay
DataValidator_validate_all_of(completeness, consistency, validity, summary) ==
    IF consistency.exc # ""
    THEN [exc |-> "", val |-> EmptyDict, vr |-> completeness.vr]
    ELSE IF summary.exc # ""
    THEN [exc |-> "", val |-> EmptyDict, vr |-> summary.vr]
    ELSE [exc |-> "",
          val |-> [completeness |-> completeness.val,
                   consistency |-> consistency.val,
                   validity |-> validity,
                   summary |-> summary.val],
          vr |-> summary.vr]

\* the summary is computed after the completeness check has appended its
\* warnings
DataValidator_validate_all(df, vr) ==
    DataValidator_validate_all_of(
        DataValidator_check_completeness(df, vr),
        DataValidator_check_consistency(df),
        DataValidator_check_validity(df),
        DataValidator_generate_validation_summary(
            df, DataValidator_check_completeness(df, vr).vr))

\* f"{score:.1f}": the number of tenths nearest to the score
Format1f(score) == (20 * score.num + score.den) \div (2 * score.den)

ReportLine(section, key, value) == [section |-> section, key |-> key, value |-> value]

\* the lines written for the result `all` of validate_all: the file is
\* opened and its heading written before the result is read, so a KeyError
\* on the empty dict leaves a file with the heading only
DataValidator_report_of(all) ==
    LET heading == <<ReportLine("Data Validation Report", "", 0),
                     ReportLine("Generated", "", 0),
                     ReportLine("Data Completeness:", "", 0)>>
        fields == SelectSeq(DataValidator_required_fields,
                            LAMBDA r : r.field \in DOMAIN all.val.completeness)
        checks == <<"valid_years", "author_format", "doi_format">>
        columns == SelectSeq(<<"year", "sample_size">>,
                             LAMBDA f : f \in DOMAIN all.val.validity)
    IN  IF "completeness" \notin DOMAIN all.val
        THEN [exc |-> "KeyError", vr |-> all.vr, written |-> heading]
        ELSE [exc |-> "", vr |-> all.vr,
              written |->
                 heading
                 \o [i \in 1..Len(fields) |->
                        ReportLine("completeness", fields[i].field,
                                   Format1f(all.val.completeness[fields[i].field]))]
                 \o <<ReportLine("Data Consistency:", "", 0)>>
                 \o [i \in 1..Len(checks) |->
                        ReportLine("consistency", checks[i],
                                   IF all.val.consistency[checks[i]] THEN 1 ELSE 0)]
                 \o <<ReportLine("Data Validity:", "", 0)>>
                 \o [i \in 1..Len(columns) |->
                        ReportLine("validity", columns[i],
                                   Len(all.val.validity[columns[i]]))]
                 \o <<ReportLine("Summary:", "", 0),
                      ReportLine("summary", "Overall Quality Score",
                                 Format1f(all.val.summary.quality_score)),
                      ReportLine("summary", "Total Issues Found",
                                 all.val.summary.total_issues)>>]

DataValidator_generate_report(df, vr) ==
    DataValidator_report_of(DataValidator_validate_all(df, vr))

\* what validate_data returns and writes, given the result `first` of its
\* validate_all and the outcome `generated` of its generate_report
validate_data_of(first, generated, generate_report) ==
    IF ~generate_report
    THEN [exc |-> "", val |-> first.val, written |-> <<>>]
    ELSE IF generated.exc # ""
    THEN [exc |-> "", val |-> EmptyDict, written |-> generated.written]
    ELSE [exc |-> "", val |-> first.val, written |-> generated.written]

\* SystematicReview.validate_data on the records of self.results: a new
\* DataValidator, validate_all, and generate_report if asked for
validate_data(df, generate_report) ==
    validate_data_of(
        DataValidator_validate_all(df, <<>>),
        DataValidator_generate_report(df, DataValidator_validate_all(df, <<>>).vr),
        generate_report)

(***************************** QualityChecker ******************************)
QualityChecker_required_fields == <<"title", "authors", "year", "doi", "sample_size">>

QualityChecker_check_completeness(df) ==
    LET fields == QualityChecker_required_fields
        field_scores == [f \in {fields[i] : i \in 1..Len(fields)} |->
                            IF f \in Columns(df) THEN NotNaPercent(df, f) ELSE RatInt(0)]
        values == [i \in 1..Len(fields) |-> field_scores[fields[i]]]
    IN  [scores |-> field_scores,
         score |-> RatMul(RatSum(values), Rat(1, Len(fields)))]

\* the column's dtype is a numpy dtype (int64, float64 or object), which is
\* equal to neither pandas extension dtype, Int64 or Float64
QualityChecker_check_year_format(df) ==
    IF "year" \notin Columns(df) THEN TRUE
    ELSE Dtype(df, "year") \in {"Int64", "Float64"}

QualityChecker_check_author_format(df) ==
    IF "authors" \notin Columns(df) THEN TRUE
    ELSE \A i \in 1..Len(df) : IsList(df[i].authors)

QualityChecker_check_doi_format(df) ==
    IF "doi" \notin Columns(df) THEN TRUE
    ELSE \A i \in 1..Len(df) : DoiCellMatches(df[i].doi)

\* the checks and the share of them that pass
QualityChecker_consistency_of(checks) ==
    [checks |-> checks,
     score |-> Rat(100 * Cardinality({check \in DOMAIN checks : checks[check]}), 3)]

QualityChecker_check_consistency(df) ==
    QualityChecker_consistency_of(
        [year_format |-> QualityChecker_check_year_format(df),
         author_format |-> QualityChecker_check_author_format(df),
         doi_format |-> QualityChecker_check_doi_format(df)])

Issue(kind, subject) == [kind |-> kind, subject |-> subject]

QualityChecker_check_validity(df) ==
    LET invalid_years == IF "year" \in Columns(df)
                         THEN RowsWhere(df, {i \in 1..Len(df) : InvalidYear(df[i], 1800)})
                         ELSE <<>>
        invalid_samples == IF "sample_size" \in Columns(df)
                           THEN RowsWhere(df, {i \in 1..Len(df) : InvalidSample(df[i])})
                           ELSE <<>>
        issues == (IF invalid_years # <<>>
                   THEN <<Issue("validity", "invalid publication years")>> ELSE <<>>)
                  \o (IF invalid_samples # <<>>
                      THEN <<Issue("validity", "invalid sample sizes")>> ELSE <<>>)
    IN  [issues |-> issues,
         score |-> RatMax(RatInt(0), RatInt(100 - Len(issues) * 10))]

QualityChecker_get_completeness_issues(completeness) ==
    LET low == SelectSeq(QualityChecker_required_fields,
                         LAMBDA f : RatLess(completeness.scores[f], RatInt(90)))
    IN  [i \in 1..Len(low) |-> Issue("Low completeness", low[i])]

QualityChecker_get_consistency_issues(consistency) ==
    LET failed == SelectSeq(<<"year_format", "author_format", "doi_format">>,
                            LAMBDA check : ~consistency.checks[check])
    IN  [i \in 1..Len(failed) |-> Issue("Failed consistency check", failed[i])]

QualityChecker_get_validity_issues(validity) == validity.issues

\* the QualityMetrics of the three results
QualityMetrics(completeness, consistency, validity) ==
    [completeness_score |-> completeness.score,
     consistency_score |-> consistency.score,
     validity_score |-> validity.score,
     overall_score |-> RatSum(<<RatMul(completeness.score, Rat(4, 10)),
                                RatMul(consistency.score, Rat(3, 10)),
                                RatMul(validity.score, Rat(3, 10))>>),
     issues |-> QualityChecker_get_completeness_issues(completeness)
                \o QualityChecker_get_consistency_issues(consistency)
                \o QualityChecker_get_validity_issues(validity)]

\* an exception inside would be logged and raised again, but none of the
\* steps raises on PaperMetadata records
check_quality(df) ==
    Return(QualityMetrics(QualityChecker_check_completeness(df),
                          QualityChecker_check_consistency(df),
                          QualityChecker_check_validity(df)))

(***************************************************************************)
(* The scorers at work.  The collection is made of records extract_metadata *)
(* returned: two fully populated ones, a record with nothing but its title, *)
(* records of the years 1750, 1850 and 9999, and one of the year 1750 and  *)
(* of sample size 0.                                                       *)
(***************************************************************************)
MaxCollection == 2

MaxCalls == 2

ScorerSources ==
    << FixtureRecord,
       [EmptyRecord EXCEPT
           !["TI"] = Str(<<"C", "o", "h", "o", "r", "t", " ", "s", "t", "u", "d", "y", " ", "o", "f", " ", "s", "t", "a", "t", "i", "n", "s">>),
           !["AU"] = StrList(<<<<"S", "m", "i", "t", "h", " ", "J">>, <<"L", "e", "e", " ", "K">>>>),
           !["DOI"] = Str(<<"d", "o", "i", ":", "1", "0", ".", "5", "6", "7", "8", "/", "c", "o", "h", "o", "r", "t", ".", "1">>),
           !["DP"] = Str(<<"1", "9", "9", "0">>),
           !["AB"] = Str(<<"W", "e", " ", "e", "n", "r", "o", "l", "l", "e", "d", " ", "2", "5", "0", " ", "p", "a", "r", "t", "i", "c", "i", "p", "a", "n", "t", "s">>)],
       [EmptyRecord EXCEPT !["title"] = Str(<<"A", " ", "n", "o", "t", "e">>)],
       [EmptyRecord EXCEPT !["title"] = Str(<<"A", "n", " ", "o", "l", "d", " ", "t", "r", "i", "a", "l">>), !["year"] = Str(<<"1", "7", "5", "0">>)],
       [EmptyRecord EXCEPT !["title"] = Str(<<"A", " ", "l", "a", "t", "e", "r", " ", "t", "r", "i", "a", "l">>), !["year"] = Str(<<"1", "8", "5", "0">>)],
       [EmptyRecord EXCEPT !["title"] = Str(<<"A", " ", "c", "o", "m", "i", "n", "g", " ", "t", "r", "i", "a", "l">>), !["year"] = Str(<<"9", "9", "9", "9">>)],
       [EmptyRecord EXCEPT !["TI"] = Str(<<"A", " ", "p", "i", "l", "o", "t">>), !["AB"] = Str(<<"n", " ", "=", " ", "0">>),
                           !["DP"] = Str(<<"1", "7", "5", "0">>)] >>

ScorerPool == [i \in 1..Len(ScorerSources) |-> extract_metadata(ScorerSources[i]).val]

\* every collection of at most n records of the pool
RECURSIVE Collections(_)
Collections(n) ==
    IF n = 0 THEN {<<>>}
    ELSE LET shorter == Collections(n - 1)
         IN  shorter \cup {Append(c, ScorerPool[i]) : c \in shorter, i \in 1..Len(ScorerPool)}

\* DataValidator(data) and QualityChecker() just constructed
InitScorer ==
    /\ data \in Collections(MaxCollection)
    /\ validation_results = <<>>
    /\ op = <<>>
    /\ report = Return(None)
    /\ written = <<>>
    /\ NormalizerIdle
    /\ ControllerIdle

Call_validate_all ==
    /\ Len(op) < MaxCalls
    /\ \E outcome \in {DataValidator_validate_all(data, validation_results)} :
          /\ report' = [exc |-> outcome.exc, val |-> outcome.val]
          /\ validation_results' = outcome.vr
    /\ op' = Append(op, "validate_all")
    /\ UNCHANGED <<data, written, normalizerVars, controllerVars>>

Call_generate_report ==
    /\ Len(op) < MaxCalls
    /\ \E outcome \in {DataValidator_generate_report(data, validation_results)} :
          /\ report' = [exc |-> outcome.exc, val |-> None]
          /\ validation_results' = outcome.vr
          /\ written' = outcome.written
    /\ op' = Append(op, "generate_report")
    /\ UNCHANGED <<data, normalizerVars, controllerVars>>

Call_check_quality ==
    /\ Len(op) < MaxCalls
    /\ report' = check_quality(data)
    /\ op' = Append(op, "check_quality")
    /\ UNCHANGED <<data, validation_results, written, normalizerVars, controllerVars>>

\* validate_data makes a DataValidator of its own
Call_validate_data ==
    /\ Len(op) < MaxCalls
    /\ \E generate_report \in BOOLEAN :
          \E outcome \in {validate_data(data, generate_report)} :
             /\ report' = [exc |-> outcome.exc, val |-> outcome.val]
             /\ written' = IF generate_report THEN outcome.written ELSE written
    /\ op' = Append(op, "validate_data")
    /\ UNCHANGED <<data, validation_results, normalizerVars, controllerVars>>

NextScorer ==
    \/ Call_validate_all
    \/ Call_generate_report
    \/ Call_check_quality
    \/ Call_validate_data

SpecScorer == InitScorer /\ [][NextScorer]_vars

\* the entry point called last
LastOp == IF op = <<>> THEN "" ELSE op[Len(op)]

\* validate_all returned the four sections of its result
HasSections ==
    DOMAIN report.val = {"completeness", "consistency", "validity", "summary"}

\* C9: scoring an empty collection never raises and yields a well-formed
\* report whose completeness, consistency and validity scores are all 0, from
\* validate_all, from validate_data and from check_quality
C9_EmptyCollectionScoresZero ==
    data = <<>> =>
        /\ LastOp \in {"validate_all", "validate_data"} =>
              /\ report.exc = ""
              /\ HasSections
              /\ report.val.summary.quality_score = RatInt(0)
        /\ LastOp = "check_quality" =>
              /\ report.exc = ""
              /\ report.val.completeness_score = RatInt(0)
              /\ report.val.consistency_score = RatInt(0)
              /\ report.val.validity_score = RatInt(0)

\* all fields populated and valid: a title, authors, a DOI of valid syntax,
\* a year within the valid range, a positive sample size, a study type
FullyPopulated(record) ==
    /\ record.title # <<>>
    /\ record.authors # <<>>
    /\ record.doi.t = "str" /\ Match(DOI_PATTERN, record.doi.s, 1).ok
    /\ record.year.t = "int" /\ record.year.n >= 1900 /\ record.year.n <= CurrentYear
    /\ record.sample_size.t = "int" /\ record.sample_size.n > 0
    /\ record.study_type.t = "str"

\* C10: for a non-empty collection of fully populated, valid records the
\* overall quality score is exactly 100, from validate_all and from
\* check_quality
C10_PerfectCollectionScores100 ==
    (data # <<>> /\ \A i \in 1..Len(data) : FullyPopulated(data[i])) =>
        /\ LastOp = "validate_all" =>
              /\ HasSections
              /\ report.val.summary.quality_score = RatInt(100)
        /\ LastOp = "check_quality" =>
              /\ report.exc = ""
              /\ report.val.overall_score = RatInt(100)

(***************************************************************************)
(* SystematicReview after the search (src/src/review.py): validate_data    *)
(* and export_results work on the data of self.results.  Neither reads any *)
(* state but self.results, and neither changes it, so one call from each   *)
(* state in which search_databases has returned stands for every call.     *)
(***************************************************************************)
\* [r['data'] for r in self.results]
ResultsData == [i \in 1..Len(results) |-> results[i].data]

\* validate_data() after search_databases has returned
Review_validate_data ==
    /\ pc = "done"
    /\ op = <<>>
    /\ \E generate_report \in BOOLEAN :
          \E outcome \in {validate_data(ResultsData, generate_report)} :
             /\ report' = [exc |-> outcome.exc, val |-> outcome.val]
             /\ written' = outcome.written
    /\ data' = ResultsData
    /\ op' = <<"validate_data">>
    /\ UNCHANGED <<validation_results, normalizerVars, controllerVars>>

(****************************** the exporters *******************************)
\* the columns of a frame of PaperMetadata records whose cells are lists
ListColumns(df) == {"authors", "full_text_links"} \cap Columns(df)

\* DataFrame.drop_duplicates keeps the first of equal rows
RECURSIVE DropDuplicates(_)
DropDuplicates(df) ==
    IF df = <<>> THEN <<>>
    ELSE LET init == DropDuplicates(SubSeq(df, 1, Len(df) - 1))
             last == df[Len(df)]
         IN  IF \E i \in 1..Len(init) : init[i] = last THEN init
             ELSE Append(init, last)

\* BaseExporter._clean_dataframe: drop_duplicates hashes every cell of a
\* frame that has rows, and a list cannot be hashed (TypeError: unhashable
\* type: 'list'); a frame without rows is returned as it is.  No column of
\* these frames is a datetime64 column, so the loop does nothing.
BaseExporter_clean_dataframe(df) ==
    IF df = <<>> THEN Return(df)
    ELSE IF ListColumns(df) # {} THEN Raise("TypeError")
    ELSE Return(DropDuplicates(df))

\* BaseExporter._prepare_data: every exception becomes ValueError
BaseExporter_prepare_data(data_) ==
    IF BaseExporter_clean_dataframe(data_).exc # "" THEN Raise("ValueError")
    ELSE BaseExporter_clean_dataframe(data_)

\* self.output_dir / f"{filename}{suffix}"
OutputPath(filename, suffix) ==
    [dir |-> "exports", filename |-> filename, suffix |-> suffix]

\* CSVExporter.export: the path, and the rows written by to_csv
CSVExporter_export(data_, filename) ==
    LET df == BaseExporter_prepare_data(data_)
    IN  IF df.exc # "" THEN [exc |-> df.exc, val |-> None, written |-> <<>>]
        ELSE [exc |-> "", val |-> OutputPath(filename, ".csv"), written |-> df.val]

\* ExcelExporter.export: after to_excel, _format_excel calls
\* workbook.add_format, which the openpyxl workbook does not have
\* (AttributeError); without openpyxl pd.ExcelWriter raises ImportError
ExcelExporter_export(data_, filename, engine_error) ==
    LET df == BaseExporter_prepare_data(data_)
    IN  IF df.exc # "" THEN [exc |-> df.exc, val |-> None, written |-> <<>>]
        ELSE [exc |-> engine_error, val |-> None, written |-> <<>>]

\* SystematicReview.export_results: an exception is logged and raised again
export_results(data_, format, filename, engine_error) ==
    IF format = "csv" THEN CSVExporter_export(data_, filename)
    ELSE IF format = "excel" THEN ExcelExporter_export(data_, filename, engine_error)
    ELSE [exc |-> "ValueError", val |-> None, written |-> <<>>]

ExportFormats == {"csv", "excel", "json"}

\* export_results(format) after search_databases has returned
Review_export_results ==
    /\ pc = "done"
    /\ op = <<>>
    /\ \E format \in ExportFormats, engine_error \in {"AttributeError", "ImportError"} :
          \E outcome \in {export_results(ResultsData, format,
                                         "systematic_review_results", engine_error)} :
             /\ report' = [exc |-> outcome.exc, val |-> outcome.val]
             /\ written' = outcome.written
             /\ op' = <<"export_results", format>>
    /\ data' = ResultsData
    /\ UNCHANGED <<validation_results, normalizerVars, controllerVars>>

NextReview ==
    \/ Next
    \/ Review_validate_data
    \/ Review_export_results

SpecReview == Init /\ [][NextReview]_vars

\* the readers delivered, in some order and from any sources, the fixture
\* record, a record without a title and the record of the year 1750
ThreeRecordScenario ==
    /\ Len(delivered) = 3
    /\ {Article(delivered[i][1], delivered[i][2]) : i \in 1..3} =
          {FixtureRecord, EmptyRecord, ReaderPool[4]}

\* the 0-based rows of the results whose year is 1750
RowsOf1750 ==
    RowsWhere(results, {i \in 1..Len(results) : results[i].data.year = SomeInt(1750)})

\* C11: in the three-record scenario search_databases leaves two records and
\* one logged rejection, and validate_data returns a result whose validity
\* section flags the year-1750 record and no other, the validity sub-score
\* of the collection being 50.
C11_EndToEndScenario ==
    (pc = "done" /\ ThreeRecordScenario) =>
        /\ Len(results) = 2
        /\ logged = 1
        /\ LastOp = "validate_data" =>
              /\ report.exc = ""
              /\ HasSections
              /\ report.val.validity = [year |-> RowsOf1750, sample_size |-> <<>>]
              /\ Len(RowsOf1750) = 1
              /\ DataValidator_validity_score(data) = Return(RatInt(50))

\* C12: when search_databases has returned with at least one record in
\* self.results, export_results in a supported format returns the path of a
\* table holding exactly the records of self.results, one row each, in order
\* and unaltered, also when some delivered records were rejected.
C12_ExportsEveryNormalizedRecord ==
    (/\ pc = "done" /\ results # <<>>
     /\ Len(op) = 2 /\ op[1] = "export_results" /\ op[2] \in {"csv", "excel"}) =>
        /\ report.exc = ""
        /\ written = ResultsData

\* C13: the sample size _extract_sample_size returns, and the sample_size of
\* every record extract_metadata returns, is either absent or a strictly
\* positive integer.
C13_SampleSizeIsPositive ==
    /\ (fn = "_extract_sample_size" /\ ret.exc = "") =>
          (ret.val = NoInt \/ (ret.val.t = "int" /\ ret.val.n > 0))
    /\ (fn = "extract_metadata" /\ ret.exc = "") =>
          (ret.val.sample_size = NoInt
           \/ (ret.val.sample_size.t = "int" /\ ret.val.sample_size.n > 0))

(***************************************************************************)
(* The checks of the scorers called one by one: one call of one method on  *)
(* a DataValidator or QualityChecker just constructed over the collection. *)
(***************************************************************************)
Check(name, outcome) ==
    /\ op = <<>>
    /\ op' = <<name>>
    /\ report' = outcome
    /\ UNCHANGED <<data, written, normalizerVars, controllerVars>>

Check_DataValidator_completeness ==
    /\ \E outcome \in {DataValidator_check_completeness(data, validation_results)} :
          /\ Check("DataValidator._check_completeness", Return(outcome.val))
          /\ validation_results' = outcome.vr

Check_QualityChecker_completeness ==
    /\ Check("QualityChecker._check_completeness",
             Return(QualityChecker_check_completeness(data)))
    /\ UNCHANGED validation_results

Check_DataValidator_validity ==
    /\ Check("DataValidator._check_validity", Return(DataValidator_check_validity(data)))
    /\ UNCHANGED validation_results

Check_QualityChecker_validity ==
    /\ Check("QualityChecker._check_validity", Return(QualityChecker_check_validity(data)))
    /\ UNCHANGED validation_results

Check_DataValidator_validity_score ==
    /\ Check("DataValidator._validity_score", DataValidator_validity_score(data))
    /\ UNCHANGED validation_results

Check_DataValidator_quality_score ==
    /\ \E outcome \in {DataValidator_calculate_quality_score(data, validation_results)} :
          /\ Check("DataValidator._calculate_quality_score",
                   [exc |-> outcome.exc, val |-> outcome.val])
          /\ validation_results' = outcome.vr

NextChecks ==
    \/ Check_DataValidator_completeness
    \/ Check_QualityChecker_completeness
    \/ Check_DataValidator_validity
    \/ Check_QualityChecker_validity
    \/ Check_DataValidator_validity_score
    \/ Check_DataValidator_quality_score
    \/ Call_check_quality

SpecChecks == InitScorer /\ [][NextChecks]_vars

\* the record has the field, and the field is not empty
PresentNonEmpty(record, field) ==
    CASE field = "title"   -> record.title # <<>>
      [] field = "authors" -> record.authors # <<>>
      [] OTHER             -> record[field].t # "none" /\ (record[field].t = "str" => record[field].s # <<>>)

\* 100 times the share of the records that have the field, non-empty
PresentPercent(df, field) ==
    Rat(100 * Cardinality({i \in 1..Len(df) : PresentNonEmpty(df[i], field)}), Len(df))

\* C14: on a non-empty collection the completeness percentage of each
\* required field, in DataValidator and in QualityChecker, is 100 times the
\* number of records that have the field non-empty over the number of
\* records; a record with no author does not count for authors.
C14_CompletenessCountsNonEmpty ==
    data # <<>> =>
        /\ LastOp = "DataValidator._check_completeness" =>
              /\ DOMAIN report.val = {"title", "authors", "year", "study_type", "sample_size"}
              /\ \A f \in DOMAIN report.val : report.val[f] = PresentPercent(data, f)
        /\ LastOp = "QualityChecker._check_completeness" =>
              /\ DOMAIN report.val.scores = {"title", "authors", "year", "doi", "sample_size"}
              /\ \A f \in DOMAIN report.val.scores :
                    report.val.scores[f] = PresentPercent(data, f)

\* the record is flagged: its year is outside 1900..now or its sample size
\* is not positive
Flagged(record) == InvalidYear(record, 1900) \/ InvalidSample(record)

\* C15: on a non-empty collection of N records of which F are flagged,
\* DataValidator's validity sub-score is max(0, 100 - 100 * F / N), each
\* flagged record counting once, and lies between 0 and 100.
C15_ValidityScoreCountsFlaggedRecords ==
    (data # <<>> /\ LastOp = "DataValidator._validity_score") =>
        /\ report =
              Return(RatMax(RatInt(0),
                            RatAdd(RatInt(100),
                                   Rat(0 - 100 * Cardinality({i \in 1..Len(data) :
                                                                 Flagged(data[i])}),
                                       Len(data)))))
        /\ ~RatLess(report.val, RatInt(0))
        /\ ~RatLess(RatInt(100), report.val)

\* 0.4 * completeness + 0.3 * consistency + 0.3 * validity
Weighted(completeness, consistency, validity) ==
    RatSum(<<RatMul(completeness, Rat(4, 10)), RatMul(consistency, Rat(3, 10)),
             RatMul(validity, Rat(3, 10))>>)

InPercentRange(score) == ~RatLess(score, RatInt(0)) /\ ~RatLess(RatInt(100), score)

\* C16: for every collection the overall quality score, of DataValidator and
\* of QualityChecker, is 0.4 * completeness + 0.3 * consistency + 0.3 *
\* validity of the sub-scores of that collection, and lies between 0 and 100.
C16_OverallScoreIsWeightedSum ==
    /\ LastOp = "DataValidator._calculate_quality_score" =>
          /\ report.exc = ""
          /\ report.val = Weighted(DataValidator_completeness_score(data, <<>>).val,
                                   DataValidator_consistency_score(data).val,
                                   DataValidator_validity_score(data).val)
          /\ InPercentRange(report.val)
    /\ LastOp = "check_quality" =>
          /\ report.exc = ""
          /\ report.val.completeness_score = QualityChecker_check_completeness(data).score
          /\ report.val.consistency_score = QualityChecker_check_consistency(data).score
          /\ report.val.validity_score = QualityChecker_check_validity(data).score
          /\ report.val.overall_score = Weighted(report.val.completeness_score,
                                                 report.val.consistency_score,
                                                 report.val.validity_score)
          /\ InPercentRange(report.val.overall_score)

\* the value of the first present key among AU, authors, FAU; an empty
\* sequence when none is present
AuthorsField(d) ==
    IF d["AU"].t # "absent" THEN d["AU"]
    ELSE IF d["authors"].t # "absent" THEN d["authors"]
    ELSE IF d["FAU"].t # "absent" THEN d["FAU"]
    ELSE List(<<>>)

\* the value is a string, or a sequence of strings
AuthorsWellTyped(v) ==
    \/ v.t = "str"
    \/ v.t = "list" /\ \A i \in 1..Len(v.l) : v.l[i].t = "str"

\* the names the value holds: the pieces between commas of a string, the
\* items of a sequence
AuthorNames(v) ==
    IF v.t = "str" THEN SplitOn(v.s, ",") ELSE [i \in 1..Len(v.l) |-> v.l[i].s]

\* the names, trimmed, without those of length 0 or 1, in their order
ExpectedAuthors(v) ==
    SelectSeq([i \in 1..Len(AuthorNames(v)) |-> Strip(AuthorNames(v)[i])],
              LAMBDA a : Len(a) >= 2)

\* C17: _extract_authors never raises; for a string or a sequence of strings
\* under the first present key of AU, authors, FAU it returns the names
\* (split on commas for a string), trimmed, those shorter than 2 dropped,
\* in input order; with no usable name it returns the empty list.
C17_AuthorsFromFirstPresentKey ==
    fn = "_extract_authors" =>
        /\ ret.exc = ""
        /\ AuthorsWellTyped(AuthorsField(raw)) =>
              ret.val = ExpectedAuthors(AuthorsField(raw))

(***************************************************************************)
(* The PubMed reader under call: one MEDLINE text, parsed by _parse_medline *)
(* or fetched by fetch_details, and the parsed record handed to            *)
(* extract_metadata as search_databases does.                              *)
(***************************************************************************)
MaxMedlineLines == 3

MedlineLines ==
    << <<"T", "I", " ", " ", "-", " ", "A", " ", "S", "t", "u", "d", "y">>, <<"A", "U", " ", " ", "-", " ", "S", "m", "i", "t", "h", " ", "J">>, <<"A", "U", " ", " ", "-", " ", "J", "o", "h", "n", "s", "o", "n", " ", "M">>, <<" ", " ", " ", " ", " ", " ", "o", "f", " ", "s", "t", "a", "t", "i", "n", "s">>,
       <<"D", "P", " ", " ", "-", " ", "2", "0", "2", "1">>, <<"P", "T", " ", " ", "-", " ", "R", "a", "n", "d", "o", "m", "i", "z", "e", "d", " ", "C", "o", "n", "t", "r", "o", "l", "l", "e", "d", " ", "T", "r", "i", "a", "l">>, <<"P", "T", " ", " ", "-", " ", "J", "o", "u", "r", "n", "a", "l", " ", "A", "r", "t", "i", "c", "l", "e">>,
       <<"P", "M", "I", "D", "-", " ", "1">>, <<"P", "M", "I", "D", " ", "1">>, <<"n", "o", " ", "s", "e", "p", "a", "r", "a", "t", "o", "r">>, <<" ", " ">> >>

\* the lines joined by newlines
RECURSIVE JoinLines(_)
JoinLines(lines) ==
    IF lines = <<>> THEN <<>>
    ELSE IF Len(lines) = 1 THEN lines[1]
    ELSE lines[1] \o <<"\n">> \o JoinLines(Tail(lines))

\* every sequence of at most n of the lines
RECURSIVE LineLists(_)
LineLists(n) ==
    IF n = 0 THEN {<<>>}
    ELSE LET shorter == LineLists(n - 1)
         IN  shorter \cup {Append(l, MedlineLines[i]) : l \in shorter, i \in 1..Len(MedlineLines)}

MedlineTexts == {JoinLines(l) : l \in LineLists(MaxMedlineLines)} \cup {FixtureMedline}

InitPubMed ==
    /\ medline \in MedlineTexts
    /\ raw = EmptyRecord
    /\ fn = ""
    /\ ret = Return(None)
    /\ ControllerIdle
    /\ ScorerIdle

\* _parse_medline(record); the parsed dict becomes the raw record
Call_parse_medline ==
    /\ fn = ""
    /\ fn' = "_parse_medline"
    /\ \E parsed \in {_parse_medline(medline)} :
          /\ ret' = parsed
          /\ raw' = IF parsed.exc = "" THEN MedlineRecord(parsed.val) ELSE raw
    /\ UNCHANGED <<medline, controllerVars, scorerVars>>

\* fetch_details(pmid), efetch answering with the text or raising
Call_fetch_details ==
    /\ fn = ""
    /\ fn' = "fetch_details"
    /\ \E raises \in BOOLEAN :
          LET efetch == IF raises THEN Raise("Exception") ELSE Return(medline)
          IN  /\ ret' = Return(None)
              /\ raw' = PubMedExtractor_fetch_details(efetch).val
    /\ UNCHANGED <<medline, controllerVars, scorerVars>>

\* extract_metadata on the record the reader returned
Extract_fetched ==
    /\ fn \in {"_parse_medline", "fetch_details"}
    /\ ret.exc = ""
    /\ fn' = "extract_metadata"
    /\ ret' = extract_metadata(raw)
    /\ UNCHANGED <<raw, medline, controllerVars, scorerVars>>

NextPubMed ==
    \/ Call_parse_medline
    \/ Call_fetch_details
    \/ Extract_fetched

SpecPubMed == InitPubMed /\ [][NextPubMed]_vars

\* the number of AU lines of the MEDLINE text
AuthorLines(record) ==
    Cardinality({i \in 1..Len(SplitOn(record, "\n")) :
                    StartsWith(SplitOn(record, "\n")[i], <<"A", "U", " ", " ", "-", " ">>)})

\* extract_metadata was called on the record parsed from the MEDLINE text
ExtractedFromParsed ==
    /\ fn = "extract_metadata"
    /\ _parse_medline(medline).exc = ""
    /\ raw = MedlineRecord(_parse_medline(medline).val)

\* C18: the record parsed from a MEDLINE text with k AU lines and accepted
\* by extract_metadata has k authors; for the fixture text it is accepted
\* with three authors, the year 2023, the sample size 500 and the study
\* type RCT.
C18_RepeatedTagsKeepEveryValue ==
    ExtractedFromParsed =>
        /\ ret.exc = "" => Len(ret.val.authors) = AuthorLines(medline)
        /\ medline = FixtureMedline =>
              /\ ret.exc = ""
              /\ Len(ret.val.authors) = 3
              /\ ret.val.year = SomeInt(2023)
              /\ ret.val.sample_size = SomeInt(500)
              /\ ret.val.study_type = SomeStr(<<"R", "C", "T">>)

(***************************************************************************)
(* Failing readers: what search_databases does when esearch or efetch      *)
(* raises.                                                                 *)
(***************************************************************************)
Called(call) == \E i \in 1..Len(reader_log) : reader_log[i] = call

\* the PMIDs search returned
PubMedDelivered == {i \in 1..Len(delivered) : delivered[i][1] = "pubmed"}

\* the PMIDs for which efetch raised
FetchFailed == {i \in PubMedDelivered : EfetchOutcomes[delivered[i][2]].exc # ""}

\* the fetch_details calls made so far
Fetches == {i \in 1..Len(reader_log) : reader_log[i] \in {"efetch", "efetch raised"}}

\* the entries due when a failed fetch counts as a skipped record and every
\* other record is taken on its own merits
RECURSIVE ResultsDespiteFailures(_)
ResultsDespiteFailures(n) ==
    IF n = 0 THEN <<>>
    ELSE LET init == ResultsDespiteFailures(n - 1)
             m == Extracted(delivered[n][1], delivered[n][2])
         IN  IF n \notin FetchFailed /\ m.exc = ""
             THEN Append(init, [source |-> delivered[n][1], data |-> m.val])
             ELSE init

\* C19: search_databases never raises because a reader call raised: after
\* a raising esearch no PMID is processed; a raising efetch leaves no entry
\* and one logged rejection; and when the call returns, every PMID was
\* fetched, every requested later source was searched, and self.results
\* holds the entries of all the other accepted records.
C19_FailingReaderNeverAborts ==
    /\ pc # "raised"
    /\ Called("esearch raised") => PubMedDelivered = {}
    /\ pc = "done" =>
          /\ Cardinality(Fetches) = Cardinality(PubMedDelivered)
          /\ args.include_cochrane => Called("cochrane.search")
          /\ args.include_clinicaltrials => Called("clinicaltrials.search")
          /\ results = ResultsDespiteFailures(Len(delivered))
          /\ logged >= Cardinality(FetchFailed)

\* C19 witness: esearch raised, and the run ended with one accepted record
\* of Cochrane and one of ClinicalTrials
C19_Witness ==
    /\ pc = "done"
    /\ Called("esearch raised")
    /\ Len(results) = 2
    /\ results[1].source = "cochrane"
    /\ results[2].source = "clinicaltrials"

(***************************************************************************)
(* _extract_year over several candidate keys.                              *)
(***************************************************************************)
\* the year a single value gives when the four formats are tried on its
\* first token; a value that is no str or has no token gives none
YearOfValue(v) ==
    IF v.t = "str" /\ SplitWhitespace(v.s) # <<>>
    THEN TryFormats(SplitWhitespace(v.s)[1], 1)
    ELSE Raise("ValueError")

\* the candidate keys, by their place in DateFields, whose value parses
ParsingFields(d) ==
    {k \in 1..Len(DateFields) : YearOfValue(Get(d, DateFields[k], None)).exc = ""}

FirstParsedYear(d) ==
    IF ParsingFields(d) = {} THEN NoInt
    ELSE LET first == CHOOSE k \in ParsingFields(d) : \A j \in ParsingFields(d) : k <= j
         IN  YearOfValue(d[DateFields[first]]).val

\* C20: _extract_year returns the year of the first candidate key, in the
\* order DP, PDAT, publication_date, year, whose value parses, whatever the
\* earlier keys hold, and None only when no candidate parses.
C20_YearOfFirstParsingKey ==
    fn = "_extract_year" => ret = Return(FirstParsedYear(raw))

(***************************************************************************)
(* The title under its two keys.                                           *)
(***************************************************************************)
\* TI is absent, empty or blank
TINotGiven(d) == d["TI"] = Absent \/ (d["TI"].t = "str" /\ Strip(d["TI"].s) = <<>>)

\* the key title holds a string of at least 3 characters after trimming
GenericTitleUsable(d) == d["title"].t = "str" /\ Len(Strip(d["title"].s)) >= 3

\* C21: when TI is absent, empty or blank and the key title holds a string of
\* at least 3 characters after trimming, extract_metadata succeeds with that
\* title, trimmed.
C21_TitleFallsBackToGenericKey ==
    (fn = "extract_metadata" /\ TINotGiven(raw) /\ GenericTitleUsable(raw)) =>
        /\ ret.exc = ""
        /\ ret.val.title = Strip(raw["title"].s)

(***************************************************************************)
(* The study type as a first match over ordered categories.                *)
(***************************************************************************)
\* the closed set of categories, in their fixed order
StudyTypeOrder ==
    <<<<"R", "C", "T">>, <<"C", "o", "h", "o", "r", "t">>, <<"C", "a", "s", "e", "-", "C", "o", "n", "t", "r", "o", "l">>, <<"M", "e", "t", "a", "-", "A", "n", "a", "l", "y", "s", "i", "s">>, <<"S", "y", "s", "t", "e", "m", "a", "t", "i", "c", " ", "R", "e", "v", "i", "e", "w">>, <<"O", "b", "s", "e", "r", "v", "a", "t", "i", "o", "n", "a", "l">>>>

\* the text _detect_study_type combines
CombinedText(d) == JoinedText(d, <<"TI", "AB", "PT", "publication_type">>)

\* the places in StudyTypeOrder of the categories with a keyword in text
CategoriesIn(text) ==
    {c \in 1..Len(StudyTypeOrder) :
        \E k \in 1..Len(STUDY_TYPES[c].keywords) : Contains(text, STUDY_TYPES[c].keywords[k])}

\* the first place at which kw stands in text (0: nowhere)
PlaceOf(kw, text) ==
    IF Contains(text, kw)
    THEN CHOOSE i \in 1..Len(text) :
            /\ i + Len(kw) - 1 <= Len(text) /\ SubSeq(text, i, i + Len(kw) - 1) = kw
            /\ \A j \in 1..(i - 1) : SubSeq(text, j, j + Len(kw) - 1) # kw
    ELSE 0

\* C22: _detect_study_type returns None or one category of the closed set,
\* and when the combined text holds keywords of one or more categories it
\* returns the first of them in the fixed order, wherever the keywords stand.
C22_StudyTypeIsFirstCategoryInOrder ==
    fn = "_detect_study_type" =>
        /\ ret.exc = ""
        /\ ret.val \in {NoStr} \cup {SomeStr(StudyTypeOrder[c]) : c \in 1..Len(StudyTypeOrder)}
        /\ CombinedText(raw).exc = "" =>
              LET found == CategoriesIn(CombinedText(raw).val.s)
              IN  IF found = {} THEN ret.val = NoStr
                  ELSE ret.val = SomeStr(StudyTypeOrder[CHOOSE c \in found : \A j \in found : c <= j])

\* C22 witness: "systematic review" stands before "randomized" in the text
\* and the type returned is RCT
C22_Witness ==
    /\ fn = "_detect_study_type"
    /\ CombinedText(raw).exc = ""
    /\ LET text == CombinedText(raw).val.s
       IN  /\ PlaceOf(<<"r", "a", "n", "d", "o", "m", "i", "z", "e", "d">>, text) > PlaceOf(<<"s", "y", "s", "t", "e", "m", "a", "t", "i", "c", " ", "r", "e", "v", "i", "e", "w">>, text)
           /\ PlaceOf(<<"s", "y", "s", "t", "e", "m", "a", "t", "i", "c", " ", "r", "e", "v", "i", "e", "w">>, text) > 0
    /\ ret = Return(SomeStr(<<"R", "C", "T">>))

(***************************************************************************)
(* The report as a view of the collection.                                 *)
(***************************************************************************)
\* C23: a second validate_all on the same DataValidator returns the four
\* sections with the values a first call returns, and the report
\* validate_data writes shows the numbers of the result it returns.
C23_ReportIsPureView ==
    /\ op = <<"validate_all", "validate_all">> =>
          /\ HasSections
          /\ report.val = DataValidator_validate_all(data, <<>>).val
    /\ (op = <<"validate_data">> /\ written # <<>>) =>
          /\ HasSections
          /\ written = DataValidator_report_of([val |-> report.val, vr |-> <<>>]).written

(***************************************************************************)
(* Completeness warnings and the issue count of the summary.               *)
(***************************************************************************)
Thresholds ==
    [title |-> 100, authors |-> 100, year |-> 90, study_type |-> 80, sample_size |-> 70]

\* the required fields whose completeness percentage is below the threshold
BelowThreshold(df) ==
    {f \in DOMAIN Thresholds \cap Columns(df) :
        RatLess(NotNaPercent(df, f), RatInt(Thresholds[f]))}

\* the issues flagged for field f
IssuesOf(f) == {i \in 1..Len(validation_results) : validation_results[i].field = f}

\* C24: after one validate_all on a new DataValidator every field below its
\* threshold has exactly one flagged issue, every other field none, and the
\* total_issues of the summary is the number of fields below their threshold.
C24_OneIssuePerFieldBelowThreshold ==
    op = <<"validate_all">> =>
        /\ \A f \in DOMAIN Thresholds :
              Cardinality(IssuesOf(f)) = IF f \in BelowThreshold(data) THEN 1 ELSE 0
        /\ HasSections
        /\ report.val.summary.total_issues = Cardinality(BelowThreshold(data))

(***************************************************************************)
(* The valid-year range of the two scorers.                                *)
(***************************************************************************)
\* QualityChecker reports invalid publication years
ReportsInvalidYears(validity) ==
    \E i \in 1..Len(validity.issues) :
        validity.issues[i].subject = "invalid publication years"

\* C25: for a collection of one record, DataValidator._check_validity flags
\* the year of the record exactly when QualityChecker._check_validity
\* reports an invalid publication year.
C25_OneValidYearRange ==
    Len(data) = 1 =>
        /\ LastOp = "DataValidator._check_validity" =>
              (report.val.year # <<>> <=> ReportsInvalidYears(QualityChecker_check_validity(data)))
        /\ LastOp = "QualityChecker._check_validity" =>
              (ReportsInvalidYears(report.val) <=> DataValidator_check_validity(data).year # <<>>)

(***************************************************************************)
(* The order of self.results.                                              *)
(***************************************************************************)
Sources == <<"pubmed", "cochrane", "clinicaltrials">>

\* the place of a source in the order of the searches
SourceRank(source) == CHOOSE k \in 1..Len(Sources) : Sources[k] = source

\* the entries of one source, in the order they have in self.results
EntriesOf(source) == SelectSeq(results, LAMBDA r : r.source = source)

\* the entries due for the records the reader of one source returned, in the
\* order it returned them
AcceptedOf(source) == ExpectedResults(SelectSeq(delivered, LAMBDA d : d[1] = source))

IsPrefix(s, t) == Len(s) <= Len(t) /\ s = SubSeq(t, 1, Len(s))

\* C26: in self.results no entry of a later source stands before an entry of
\* an earlier one, and the entries of each source are, in the order its
\* reader returned the records, those of its accepted records: the first of
\* them while its loop runs, all of them when the call returns.
C26_SourcesInFixedOrder ==
    /\ \A i \in 1..Len(results) : \A j \in i..Len(results) :
          SourceRank(results[i].source) <= SourceRank(results[j].source)
    /\ \A k \in 1..Len(Sources) :
          /\ IsPrefix(EntriesOf(Sources[k]), AcceptedOf(Sources[k]))
          /\ pc = "done" => EntriesOf(Sources[k]) = AcceptedOf(Sources[k])

\* C26 witness: the call has returned with two different PubMed entries
\* followed by a Cochrane entry
C26_Witness ==
    /\ pc = "done"
    /\ Len(results) = 3
    /\ results[1].source = "pubmed" /\ results[2].source = "pubmed"
    /\ results[1].data # results[2].data
    /\ results[3].source = "cochrane"

(***************************************************************************)
(* The sources a call is to search.                                        *)
(***************************************************************************)
\* the sets of enabled sources a call with arguments a can stand for:
\* search_databases has a switch for Cochrane and one for ClinicalTrials, and
\* none for PubMed
EnabledSets(a) ==
    {S \in SUBSET {Sources[k] : k \in 1..Len(Sources)} :
        /\ "cochrane" \in S <=> a.include_cochrane
        /\ "clinicaltrials" \in S <=> a.include_clinicaltrials}

\* the reader of the source was called
Invoked(source) ==
    CASE source = "pubmed" -> Called("esearch") \/ Called("esearch raised")
      [] source = "cochrane" -> Called("cochrane.search")
      [] source = "clinicaltrials" -> Called("clinicaltrials.search")

\* C27: whichever of the three sources is not enabled for the call, its
\* reader is never invoked and self.results holds no entry of it.
C27_OnlyEnabledSourcesAreSearched ==
    pc # "idle" =>
        \A S \in EnabledSets(args) :
            \A k \in 1..Len(Sources) :
                Sources[k] \notin S =>
                    /\ ~Invoked(Sources[k])
                    /\ EntriesOf(Sources[k]) = <<>>

(***************************************************************************)
(* A SystematicReview in use: calls of search_databases, one after the     *)
(* other, and between or after them one call of export_results,            *)
(* validate_data or generate_statistics.                                   *)
(***************************************************************************)
\* the calls of search_databases in a session
MaxSearches == 2

\* the calls of search_databases made so far, by their esearch
Searches == {i \in 1..Len(reader_log) : reader_log[i] \in {"esearch", "esearch raised"}}

\* search_databases called on a SystematicReview that was searched before
SearchAgain ==
    /\ Cardinality(Searches) < MaxSearches
    /\ SearchPubMedAt("done")

(****************************** StatsGenerator *****************************)
\* df['study_type'].value_counts().to_dict(): None is not counted
StatsGenerator_count_study_types(df) ==
    LET types == {df[i].study_type.s : i \in {k \in 1..Len(df) : df[k].study_type.t = "str"}}
    IN  [type \in types |->
            Cardinality({i \in 1..Len(df) : df[i].study_type = SomeStr(type)})]

\* the sum of the sample sizes given; the mean, the median and the standard
\* deviation, floats, are left out
StatsGenerator_analyze_sample_sizes(df) ==
    LET given == SelectSeq(df, LAMBDA r : r.sample_size.t = "int")
    IN  [total_participants |-> RatSum([i \in 1..Len(given) |-> RatInt(given[i].sample_size.n)]).num]

\* int(years.min()) of no year at all is int(nan): ValueError; the median is
\* left out
StatsGenerator_analyze_years(df) ==
    LET years == {df[i].year.n : i \in {k \in 1..Len(df) : df[k].year.t = "int"}}
    IN  IF years = {} THEN Raise("ValueError")
        ELSE Return([year_range |-> <<CHOOSE y \in years : \A z \in years : y <= z,
                                      CHOOSE y \in years : \A z \in years : y >= z>>,
                     publications_by_year |->
                        [y \in years |-> Cardinality({i \in 1..Len(df) : df[i].year = SomeInt(y)})]])

StatsGenerator_calculate_completeness(df) ==
    RatMul(RatSum([i \in 1..4 |-> NotNaPercent(df, <<"title", "authors", "year", "study_type">>[i])]),
           Rat(1, 4))

StatsGenerator_calculate_quality_metrics(df) ==
    [has_doi |-> NotNaPercent(df, "doi"),
     has_full_text |-> Rat(100 * Cardinality({i \in 1..Len(df) : df[i].full_text_links # <<>>}),
                           Len(df)),
     complete_metadata |-> StatsGenerator_calculate_completeness(df)]

\* an exception in one of the four parts is logged and {} returned; a frame
\* of no record has no column study_type (KeyError)
StatsGenerator_generate_summary_stats(df) ==
    IF df = <<>> THEN EmptyDict
    ELSE IF StatsGenerator_analyze_years(df).exc # "" THEN EmptyDict
    ELSE [study_counts |-> StatsGenerator_count_study_types(df),
          sample_sizes |-> StatsGenerator_analyze_sample_sizes(df),
          year_distribution |-> StatsGenerator_analyze_years(df).val,
          quality_metrics |-> StatsGenerator_calculate_quality_metrics(df)]

StatsGenerator_generate_meta_analysis(df) ==
    [effect_sizes |-> EmptyDict, heterogeneity |-> EmptyDict, subgroup_analysis |-> EmptyDict]

\* SystematicReview.generate_statistics
generate_statistics(data_) ==
    Return([summary |-> StatsGenerator_generate_summary_stats(data_),
            meta_analysis |-> StatsGenerator_generate_meta_analysis(data_)])

\* generate_statistics() after search_databases has returned
Review_generate_statistics ==
    /\ pc = "done"
    /\ op = <<>>
    /\ report' = generate_statistics(ResultsData)
    /\ data' = ResultsData
    /\ op' = <<"generate_statistics">>
    /\ UNCHANGED <<validation_results, written, normalizerVars, controllerVars>>

NextSession ==
    \/ NextReview
    \/ Review_generate_statistics
    \/ SearchAgain

SpecSession == Init /\ [][NextSession]_vars

\* C28: every step of a session leaves the entries self.results has where
\* they are and as they are, adding new ones at the end only, and a step of
\* export_results, validate_data or generate_statistics adds none.
C28_ResultsAreAppendOnly ==
    [][/\ IsPrefix(results, results')
       /\ op' # op => results' = results]_vars

\* C28 witness: search_databases was called twice, the same record was
\* accepted in both calls and stands twice in self.results, and one of the
\* other operations was called
C28_Witness ==
    /\ pc = "done"
    /\ Cardinality(Searches) = 2
    /\ op # <<>>
    /\ Len(results) = 2
    /\ results[1] = results[2]

(***************************************************************************)
(* Normalised records under the format checks.                             *)
(***************************************************************************)
\* the author_format and doi_format checks of both scorers
PassesFormatChecks(df) ==
    /\ DataValidator_check_author_format(df)
    /\ DataValidator_check_doi_format(df)
    /\ QualityChecker_check_author_format(df)
    /\ QualityChecker_check_doi_format(df)

\* C29: every collection made only of records returned by extract_metadata
\* passes the author_format and doi_format checks: the record just returned,
\* alone or after other returned records, has a list of authors and a doi
\* that is absent or matches the DOI pattern from its first character.
C29_ExtractedRecordsPassFormatChecks ==
    (fn = "extract_metadata" /\ ret.exc = "") =>
        \A c \in Collections(MaxCollection - 1) :
            PassesFormatChecks(Append(c, ret.val))

\* a DOI cut out of a field that does not begin with it
C29_Witness ==
    /\ fn = "extract_metadata" /\ ret.exc = ""
    /\ ret.val.doi.t = "str"
    /\ raw["DOI"].t = "str"
    /\ ~Match(DOI_PATTERN, raw["DOI"].s, 1).ok
    /\ PassesFormatChecks(<<ScorerPool[1], ret.val>>)

(***************************************************************************)
(* Absent years and sample sizes under the validity checks.                *)
(***************************************************************************)
\* the rows of the collection whose field is absent, as index labels
AbsentRows(df, field) ==
    RowsWhere(df, {i \in 1..Len(df) : df[i][field].t = "none"})

\* the collection with every absent year and sample size replaced by a
\* value within range
Filled(df) ==
    [i \in 1..Len(df) |->
        [df[i] EXCEPT !.year = IF @.t = "none" THEN SomeInt(2000) ELSE @,
                      !.sample_size = IF @.t = "none" THEN SomeInt(1) ELSE @]]

\* no element of the one sequence occurs in the other
Disjoint(s, t) == \A i \in 1..Len(s) : \A j \in 1..Len(t) : s[i] # t[j]

\* C30: a record whose year is absent is never flagged as an invalid year,
\* a record whose sample_size is absent is never flagged as an invalid
\* sample size, and the validity score is the one the collection would have
\* with values within range in their place.
C30_AbsentValuesAreNeverInvalid ==
    /\ (LastOp = "DataValidator._check_validity" /\ data # <<>>) =>
          /\ Disjoint(report.val.year, AbsentRows(data, "year"))
          /\ Disjoint(report.val.sample_size, AbsentRows(data, "sample_size"))
          /\ report.val = DataValidator_check_validity(Filled(data))
    /\ (LastOp = "DataValidator._validity_score" /\ data # <<>>) =>
          /\ report.exc = ""
          /\ report.val = DataValidator_validity_score(Filled(data)).val
    /\ LastOp = "QualityChecker._check_validity" =>
          /\ report.val = QualityChecker_check_validity(Filled(data))
          /\ (\A i \in 1..Len(data) : data[i].year.t = "none")
                => ~ReportsInvalidYears(report.val)
          /\ (\A i \in 1..Len(data) :
                 data[i].year.t = "none" /\ data[i].sample_size.t = "none")
                => report.val.score = RatInt(100)

\* a record with neither year nor sample size next to a record of the year
\* 1750 and of sample size 0, scored
C30_Witness ==
    /\ LastOp = "DataValidator._validity_score"
    /\ Len(data) = 2
    /\ data[1].year.t = "none" /\ data[1].sample_size.t = "none"
    /\ data[2].year.t = "int" /\ data[2].sample_size.t = "int"
    /\ DataValidator_check_validity(data) = [year |-> <<1>>, sample_size |-> <<1>>]
    /\ report.val = RatInt(0)
====
